---- MODULE Spec2Model ----
(***************************************************************************)
(* Model of the vault price backfill core of pareto-scripts:               *)
(*   - the RPC provider pool (initializeProviderPool, rpcCall),            *)
(*   - the searches built on it (getBlockByTime, getDeployBlock),          *)
(*   - the discovery of the price source (discoverPriceSource).            *)
(* One step of the model is the code that runs between two suspension      *)
(* points (await) of the single-threaded program.                          *)
(***************************************************************************)
EXTENDS Integers, Sequences, FiniteSets, TLC

VARIABLES
    providerPool,    \* provider.js: let providerPool = []   (sequence of {url, provider})
    providerCursor,  \* provider.js: let providerCursor = 0
    initOutcome,     \* right after initializeProviderPool(rpcUrls): its argument and what it
                     \* threw; Undefined once the program has moved on
    rpc,             \* the frame of the rpcCall in flight (locals of rpcCall) and how it ended
    invocations,     \* the task invocations of the current rpcCall, in order
    sleeps,          \* the sleep durations (ms) of the current rpcCall, in order
    cursor0,         \* providerCursor when the current rpcCall was entered
    served,          \* since the last initialize: number of rpcCalls entered, and whether
                     \* every task attempt so far succeeded at once
    gbt,             \* the frame of the getBlockByTime in flight and how it ended
    probed,          \* the blocks whose timestamp the current getBlockByTime has read
    gdb,             \* the frame of the getDeployBlock in flight and how it ended
    codeProbed,      \* the blocks at which the current getDeployBlock has read the bytecode
    dps,             \* the frame of the discoverPriceSource in flight and how it ended
    tried,           \* the probes the current discoverPriceSource has made on its candidates
    chain,           \* the chain the endpoints serve: chain[b + 1] = timestamp of block b
    query,           \* the arguments the program passes to getBlockByTime in this run
    deployedAt,      \* the first block at which the contract searched for has bytecode
    opts,            \* the options of this run (opts of main, of discoverPriceSource)
    main,            \* the frame of the backfill's main in flight and how it ended
    stream,          \* what main has written to the CSV stream: the rows, then the summary
    visited          \* the blocks the sampling loop of main has visited, in order

vars == <<providerPool, providerCursor, initOutcome, rpc, invocations, sleeps,
          cursor0, served, gbt, probed, gdb, codeProbed, dps, tried,
          chain, query, deployedAt, opts, main, stream, visited>>

poolVars == <<providerPool, providerCursor, initOutcome>>
rpcVars  == <<rpc, invocations, sleeps, cursor0>>
gbtVars  == <<gbt, probed>>
gdbVars  == <<gdb, codeProbed>>
dpsVars  == <<dps, tried>>
mainVars == <<main, stream, visited>>
envVars  == <<chain, query, deployedAt, opts>>

-----------------------------------------------------------------------------
(* Bounds of the model *)

MaxUrls == 3          \* longest URL list handed to initializeProviderPool
MaxRetries == 2       \* largest retriesPerProvider a caller passes
MaxCalls == 4         \* rpcCalls entered from the top level after one initialize
MaxUrlsResolver == 2  \* longest URL list of the pool under the resolver
MaxHead == 3          \* number of the chain's head block
MaxUrlsDiscovery == 2 \* longest URL list of the pool under discovery
MaxHeadBackfill == 2  \* number of the head block of the chain the backfill samples
MaxStep == 2          \* largest --block-step

-----------------------------------------------------------------------------
(* config.js *)

SecondsPerDay == 86400

MAX_RETRIES_PER_PROVIDER == 2
RETRY_DELAY_MS == 500

PRICE_FUNCTIONS ==
    [ standard |-> << "priceAA", "priceBB", "price", "tokenPrice", "tranchePrice",
                      "pricePerShare", "getPricePerFullShare" >>,
      AA       |-> << "priceAA", "priceBB", "price", "tokenPrice", "tranchePrice",
                      "pricePerShare", "getPricePerFullShare" >>,
      BB       |-> << "priceBB", "priceAA", "price", "tokenPrice", "tranchePrice",
                      "pricePerShare", "getPricePerFullShare" >> ]

RETRIABLE_ERROR_PATTERNS ==
    << "503", "500", "timeout", "temporar", "overflow", "cannot fulfill request",
       "server response", "free tier", "rate limit", "request limit",
       "too many requests", "historical state", "not available" >>

-----------------------------------------------------------------------------
(* JavaScript values and string primitives used by the code *)

Undefined == [undefined |-> TRUE]
Null == [null |-> TRUE]

\* opts without a priceFn: opts.priceFn is tested for truthiness only, and "" stands
\* for every value that is not truthy
NoOpts == [priceFn |-> ""]

UpperCase == "ABCDEFGHIJKLMNOPQRSTUVWXYZ"
LowerCase == "abcdefghijklmnopqrstuvwxyz"

CharAt(s, i) == SubSeq(s, i, i)

LowerChar(c) ==
    IF \E i \in 1..Len(UpperCase) : CharAt(UpperCase, i) = c
    THEN CharAt(LowerCase, CHOOSE i \in 1..Len(UpperCase) : CharAt(UpperCase, i) = c)
    ELSE c

UpperChar(c) ==
    IF \E i \in 1..Len(LowerCase) : CharAt(LowerCase, i) = c
    THEN CharAt(UpperCase, CHOOSE i \in 1..Len(LowerCase) : CharAt(LowerCase, i) = c)
    ELSE c

RECURSIVE toUpperCase(_)
toUpperCase(s) ==
    IF Len(s) = 0 THEN s
    ELSE UpperChar(CharAt(s, 1)) \o toUpperCase(SubSeq(s, 2, Len(s)))

\* seq.join(sep)
RECURSIVE join(_, _)
join(seq, sep) ==
    IF Len(seq) = 0 THEN ""
    ELSE IF Len(seq) = 1 THEN seq[1]
    ELSE seq[1] \o sep \o join(Tail(seq), sep)

\* a BigInt is written as its decimal numeral; 10n ** BigInt(n) is 1 followed by n zeros
RECURSIVE Zeros(_)
Zeros(n) == IF n <= 0 THEN "" ELSE "0" \o Zeros(n - 1)

BigPowTen(n) == "1" \o Zeros(n)

Digits == "0123456789"

\* a number below 100 written with two digits
TwoDigits(n) == CharAt(Digits, (n \div 10) + 1) \o CharAt(Digits, (n % 10) + 1)

\* new Date(Number(timestamp) * 1000).toISOString().slice(0, 10), for the timestamps of
\* January 1970
DateOf(ts) == "1970-01-" \o TwoDigits((ts \div SecondsPerDay) + 1)

\* Math.round(a / b) for b > 0: the nearest integer, a half rounded up
Round(a, b) == (2 * a + b) \div (2 * b)

Min2(a, b) == IF a <= b THEN a ELSE b
Max2(a, b) == IF a >= b THEN a ELSE b

RECURSIVE toLowerCase(_)
toLowerCase(s) ==
    IF Len(s) = 0 THEN s
    ELSE LowerChar(CharAt(s, 1)) \o toLowerCase(SubSeq(s, 2, Len(s)))

includes(s, pattern) ==
    \E i \in 1..(Len(s) - Len(pattern) + 1) : SubSeq(s, i, i + Len(pattern) - 1) = pattern

\* new Error(text): an error object with only a message
NewError(text) == [shortMessage |-> "", message |-> text, info |-> ""]

-----------------------------------------------------------------------------
(* utils.js *)

isRetriableRpcError_CaseSensitive(err) ==
    LET msg == err.shortMessage \o " " \o err.message \o " " \o err.info
    IN  \E p \in 1..Len(RETRIABLE_ERROR_PATTERNS) : includes(msg, RETRIABLE_ERROR_PATTERNS[p])

isRetriableRpcError(err) ==
    LET msg == toLowerCase(err.shortMessage \o " " \o err.message \o " " \o err.info)
    IN  \E p \in 1..Len(RETRIABLE_ERROR_PATTERNS) : includes(msg, RETRIABLE_ERROR_PATTERNS[p])

-----------------------------------------------------------------------------
(* The environment: URLs, the errors a task may raise, the chain *)

Urls == << "u1", "u2", "u3", "u4" >>

\* the rpcUrls argument: a list of URLs, or nothing at all
UrlArgs == { [list |-> SubSeq(Urls, 1, k)] : k \in 0..MaxUrls } \cup { Null }

\* Errors as ethers raises them: shortMessage, message, info.error.message
TaskErrors ==
    { [shortMessage |-> "", message |-> "Request Timeout", info |-> ""],
      [shortMessage |-> "execution reverted", message |-> "", info |-> ""] }

\* texts an error may carry, in several letter cases
ErrorTexts ==
    { "Request Timeout", "TIMEOUT", "HTTP 503", "Too Many Requests",
      "Historical State", "execution reverted", "missing revert data", "time" }

\* error objects of several shapes: no text at all, a text in one of the three places,
\* texts in two places
ErrorShapes ==
    { [shortMessage |-> "", message |-> "", info |-> ""],
      [shortMessage |-> "rate", message |-> "limit", info |-> ""],
      [shortMessage |-> "time", message |-> "out", info |-> ""] }
    \cup { [shortMessage |-> t, message |-> "", info |-> ""] : t \in ErrorTexts }
    \cup { [shortMessage |-> "", message |-> t, info |-> ""] : t \in ErrorTexts }
    \cup { [shortMessage |-> "", message |-> "", info |-> t] : t \in ErrorTexts }

\* isRetriableRpcError over the errors of the model, evaluated once
Retriable == [e \in TaskErrors \cup ErrorShapes |-> isRetriableRpcError(e)]

latestBlock == Len(chain) - 1
timestamp(b) == chain[b + 1]

BlockGaps == {0, 2}

RECURSIVE ChainsFrom(_, _)
ChainsFrom(c, k) ==
    IF k = 0 THEN { c }
    ELSE UNION { ChainsFrom(Append(c, c[Len(c)] + g), k - 1) : g \in BlockGaps }

\* timestamps non-decreasing in the block number; genesis at 1; consecutive blocks
\* share a timestamp or lie two apart, so that a target can fall between them
Chains == ChainsFrom(<<1>>, MaxHead)

MaxTs == 2 * MaxHead + 2

\* getBlockByTime(targetTs, low, high); high = -1 stands for high = null
Queries == [targetTs : 0..MaxTs, low : 0..MaxHead, high : -1..MaxHead]

\* the address handed to getDeployBlock and to discoverPriceSource
InputAddress == "0x1111"

\* eth_getCode: "0x" where no contract is deployed
Codes == { "0x", "0x6080" }

\* the bytecode of the contract at InputAddress as of block b: empty before the
\* block it was deployed at, non-empty from that block on
Bytecode(b) == IF b >= deployedAt THEN "0x6080" ELSE "0x"

\* what the contracts answer to discovery's reads when they answer at all:
\* symbol() of the input, minter() of the input, decimals() of a candidate
Symbols == { "AA_sr", "BB_jr", "BBAA", "bb_jr", "USDC", "" }
MinterAddress == "0xAbCd"
MinterAnswers == { MinterAddress, "0xZZ" }
DecimalsAnswers == { 0, 30, 31 }

\* the addresses of the model in their checksum spelling
KnownAddresses == { InputAddress, MinterAddress }

\* the prices the price source answers with
Prices == { 1000, 1010, 1020 }

\* chains for the backfill: the first block at midnight, consecutive blocks 12 or 40
\* hours apart
DayGaps == { 43200, 144000 }

RECURSIVE DayChainsFrom(_, _)
DayChainsFrom(c, k) ==
    IF k = 0 THEN { c }
    ELSE UNION { DayChainsFrom(Append(c, c[Len(c)] + g), k - 1) : g \in DayGaps }

DayChains == DayChainsFrom(<<0>>, MaxHeadBackfill)

\* the pool main has initialized
BackfillUrls == << "u1" >>

\* what discoverPriceSource has returned to main
Discoveries ==
    { [ sourceAddress |-> InputAddress, sourceFunction |-> "priceAA", mode |-> "direct",
        tokenAddress |-> InputAddress, tokenSymbol |-> Null, minterAddress |-> Null ],
      [ sourceAddress |-> InputAddress, sourceFunction |-> "convertToAssets",
        mode |-> "erc4626", oneShare |-> "1000000", shareDecimals |-> 6,
        tokenAddress |-> InputAddress, tokenSymbol |-> Null, minterAddress |-> Null ] }

\* the options of a run: no priceFn, or --price-fn <name>
Options == { [priceFn |-> ""], [priceFn |-> "getRate"] }

\* deployedAt = MaxHead + 1: not deployed at the head of the chain
DeployBlocks == 0..(MaxHead + 1)

-----------------------------------------------------------------------------
(* provider.js: initializeProviderPool *)

IdleFrame == [pc |-> "idle", task |-> Undefined, retriesPerProvider |-> 0, n |-> 0,
              order |-> <<>>, pos |-> 0, attempt |-> 0, lastErr |-> Undefined,
              result |-> Undefined, err |-> Undefined]

\* the frame of getBlockByTime; the argument high = null is written -1, low0 and high0
\* keep the range the search started from
IdleGbt == [pc |-> "idle", targetTs |-> 0, low |-> 0, high |-> 0, low0 |-> 0,
            high0 |-> 0, mid |-> 0, result |-> Undefined, err |-> Undefined]

\* the frame of getDeployBlock
IdleGdb == [pc |-> "idle", low |-> 0, high |-> 0, latest |-> 0, mid |-> 0,
            result |-> Undefined, err |-> Undefined]

\* the frame of discoverPriceSource; at is the statement it is suspended in
IdleDps == [pc |-> "idle", at |-> "", inputAddress |-> "", opts |-> NoOpts,
            latest |-> 0, tokenSymbol |-> Null,
            minterAddress |-> Null, checksum |-> "", candidates |-> <<>>,
            functionOrder |-> <<>>, c |-> 0, f |-> 0, decimals |-> 0, oneShare |-> "",
            result |-> Undefined, err |-> Undefined]

RpcQuiet == rpc.pc \in {"idle", "returned", "thrown"}
GbtQuiet == gbt.pc \in {"idle", "returned", "thrown"}
GdbQuiet == gdb.pc \in {"idle", "returned", "thrown"}
DpsQuiet == dps.pc \in {"idle", "returned", "thrown"}

\* no call of the program is in flight: the top level may make one
\* the frame of main from the range resolution on; -1 stands for an option that was
\* not given, 0 for blockStep = null, Null for a local that is still null; maxDrawdown
\* is in hundredths of a percent
IdleMain == [pc |-> "idle", at |-> "", discovery |-> Undefined, latestBlock |-> 0,
             deployBlock |-> 0, startBlock |-> -1, endBlock |-> -1, blockStep |-> -1,
             warned |-> FALSE, block |-> 0, blk |-> Undefined, lastDate |-> "",
             firstTs |-> Null, lastTs |-> Null, firstPrice |-> Null, lastPrice |-> Null,
             prevPrice |-> Null, firstDate |-> Null, lastDateSeen |-> Null,
             firstBlockSeen |-> Null, lastBlockSeen |-> Null, observations |-> 0,
             peakPrice |-> Null, maxDrawdown |-> 0, err |-> Undefined]

\* the CSV stream before main has written to it
EmptyStream == [rows |-> <<>>, summary |-> Undefined]

MainQuiet == main.pc \in {"idle", "done", "aborted"}

Quiet == RpcQuiet /\ GbtQuiet /\ GdbQuiet /\ DpsQuiet /\ MainQuiet

\* rpcUrls.map((url) => ({ url, provider: new ethers.JsonRpcProvider(url) }))
MakePool(rpcUrls) == [i \in 1..Len(rpcUrls) |-> [url |-> rpcUrls[i], provider |-> rpcUrls[i]]]

initializeProviderPool_KeepsCursor(rpcUrls) ==
    /\ Quiet
    /\ IF rpcUrls = Null \/ Len(rpcUrls.list) = 0
       THEN /\ initOutcome' = [rpcUrls |-> rpcUrls,
                               threw |-> NewError("no RPC URLs configured")]
            /\ UNCHANGED <<providerPool, providerCursor, served>>
       ELSE /\ providerPool' = MakePool(rpcUrls.list)
            /\ providerCursor' = providerCursor
            /\ initOutcome' = [rpcUrls |-> rpcUrls, threw |-> Undefined]
            /\ served' = [calls |-> 0, clean |-> TRUE]
    /\ UNCHANGED <<rpcVars, gbtVars, gdbVars, dpsVars, mainVars, envVars>>

initializeProviderPool(rpcUrls) ==
    /\ Quiet
    /\ IF rpcUrls = Null \/ Len(rpcUrls.list) = 0
       THEN /\ initOutcome' = [rpcUrls |-> rpcUrls,
                               threw |-> NewError("no RPC URLs configured")]
            /\ UNCHANGED <<providerPool, providerCursor, served>>
       ELSE /\ providerPool' = MakePool(rpcUrls.list)
            /\ providerCursor' = 0
            /\ initOutcome' = [rpcUrls |-> rpcUrls, threw |-> Undefined]
            /\ served' = [calls |-> 0, clean |-> TRUE]
    /\ UNCHANGED <<rpcVars, gbtVars, gdbVars, dpsVars, mainVars, envVars>>

-----------------------------------------------------------------------------
(* provider.js: rpcCall.  The tasks the program hands to it: *)

WhoAmI         == [op |-> "whoAmI", arg |-> 0]           \* (p, url) => number of the endpoint
GetBlockNumber == [op |-> "getBlockNumber", arg |-> 0]   \* (p) => p.getBlockNumber()
GetBlock(b)    == [op |-> "getBlock", arg |-> b]         \* (p) => p.getBlock(b)
\* (provider) => new ethers.Contract(address, [abiSig], provider)[fnName](...args, {blockTag})
Call(address, fnName, args, blockTag) ==
    [op |-> "call", address |-> address, fn |-> fnName, args |-> args, arg |-> blockTag]
GetCode(address, b) == [op |-> "getCode", address |-> address, arg |-> b]
                                                         \* (p) => p.getCode(address, b)

UrlNumber(url) == CHOOSE k \in 1..Len(Urls) : Urls[k] = url

\* what task(item.provider, item.url) resolves to when it succeeds
TaskValue(task, item) ==
    CASE task.op = "whoAmI"         -> [value |-> UrlNumber(item.url)]
      [] task.op = "getBlockNumber" -> [value |-> latestBlock]
      [] task.op = "getBlock"       -> [value |-> timestamp(task.arg)]
      [] task.op = "getCode"        -> [text |-> Bytecode(task.arg)]
      [] task.op = "call"           -> [value |-> 1]     \* a uint256 price

\* the values the task may resolve to: one value when the chain of the model decides
\* it, any value of its type when a contract outside the model decides it
Answers(task, item) ==
    CASE task.op = "getCode" /\ task.address # InputAddress -> { [text |-> c] : c \in Codes }
      [] task.op = "call" /\ task.fn = "symbol" -> { [text |-> x] : x \in Symbols }
      [] task.op = "call" /\ task.fn = "minter" -> { [text |-> a] : a \in MinterAnswers }
      [] task.op = "call" /\ task.fn = "decimals" -> { [value |-> n] : n \in DecimalsAnswers }
      [] task.op = "call" -> { [value |-> x] : x \in Prices }
      [] OTHER -> { TaskValue(task, item) }

\* const order = []; for (i < n) order.push((providerCursor + i) % n)
Order_FromZero(cursor, n) == [i \in 1..n |-> (i - 1) % n]

Order(cursor, n) == [i \in 1..n |-> (cursor + (i - 1)) % n]

\* providerCursor = (idx + 1) % n
NextCursor_PlusTwo(idx, n) == (idx + 2) % n
NextCursor_NoWrap(idx, n) == idx + 1

NextCursor(idx, n) == (idx + 1) % n

\* lastErr = err
Remember_First(lastErr, err) == IF lastErr = Undefined THEN err ELSE lastErr

Remember(lastErr, err) == err

\* if (!isRetriableRpcError(err)) throw err
ThrowsAtOnce_Never(e) == FALSE

ThrowsAtOnce(e) == ~Retriable[e]

\* if (attempt < retriesPerProvider - 1) await sleep(RETRY_DELAY_MS * (attempt + 1))
SleepsBeforeRetry_Always(attempt, retriesPerProvider) == attempt < retriesPerProvider

SleepsBeforeRetry(attempt, retriesPerProvider) == attempt < retriesPerProvider - 1

Backoff(attempt) == RETRY_DELAY_MS * (attempt + 1)

\* throw lastErr || new Error("rpc call failed on all providers")
Exhausted_Generic(lastErr) == NewError("rpc call failed on all providers")

Exhausted(lastErr) ==
    IF lastErr = Undefined THEN NewError("rpc call failed on all providers") ELSE lastErr

Invocation(f) ==
    [idx |-> f.order[f.pos], attempt |-> f.attempt, out |-> "pending", err |-> Undefined]

\* rpcCall from its entry to its first suspension point (or to the throw)
EnterCall(task, retriesPerProvider) ==
    LET n == Len(providerPool)
        f == [IdleFrame EXCEPT !.task = task, !.retriesPerProvider = retriesPerProvider,
                               !.n = n, !.order = Order(providerCursor, n)]
    IN  /\ cursor0' = providerCursor
        /\ sleeps' = <<>>
        /\ IF n = 0
           THEN /\ rpc' = [f EXCEPT !.pc = "thrown",
                                    !.err = NewError("provider pool not initialized")]
                /\ invocations' = <<>>
           ELSE IF retriesPerProvider <= 0
           THEN \* no loop body runs
                /\ rpc' = [f EXCEPT !.pc = "thrown", !.pos = n, !.err = Exhausted(f.lastErr)]
                /\ invocations' = <<>>
           ELSE LET g == [f EXCEPT !.pc = "task", !.pos = 1, !.attempt = 0]
                IN  /\ rpc' = g
                    /\ invocations' = <<Invocation(g)>>

Settled(out, e) == [invocations EXCEPT ![Len(invocations)].out = out,
                                       ![Len(invocations)].err = e]

\* the awaited task resolves: providerCursor = (idx + 1) % n; return result
TaskResolves ==
    /\ rpc.pc = "task"
    /\ LET idx == rpc.order[rpc.pos]
           item == providerPool[idx + 1]
       IN  /\ providerCursor' = NextCursor(idx, rpc.n)
           /\ \E v \in Answers(rpc.task, item) :
                  rpc' = [rpc EXCEPT !.pc = "returned", !.result = v]
    /\ invocations' = Settled("ok", Undefined)
    /\ served' = IF rpc.pos = 1 /\ rpc.attempt = 0
                 THEN served ELSE [served EXCEPT !.clean = FALSE]
    /\ UNCHANGED <<providerPool, initOutcome, sleeps, cursor0, gbtVars, gdbVars, dpsVars,
                   mainVars, envVars>>

\* attempt++ and the tests of the two loops, up to the next invocation of the task
\* or to the throw after the last endpoint
NextAttempt(f, log) ==
    IF f.attempt + 1 < f.retriesPerProvider
    THEN LET g == [f EXCEPT !.pc = "task", !.attempt = f.attempt + 1]
         IN  /\ rpc' = g
             /\ invocations' = Append(log, Invocation(g))
    ELSE IF f.pos < f.n
    THEN LET g == [f EXCEPT !.pc = "task", !.pos = f.pos + 1, !.attempt = 0]
         IN  /\ rpc' = g
             /\ invocations' = Append(log, Invocation(g))
    ELSE /\ rpc' = [f EXCEPT !.pc = "thrown", !.attempt = f.attempt + 1,
                             !.err = Exhausted(f.lastErr)]
         /\ invocations' = log

\* the catch block of rpcCall, from the rejection of the task with e to the next
\* suspension point or to the throw; the error object thrown by invocation k is
\* [thrownBy |-> k, error |-> e]
Catch(e) ==
    LET err == [thrownBy |-> Len(invocations), error |-> e]
        f == [rpc EXCEPT !.lastErr = Remember(rpc.lastErr, err)]
    IN  IF ThrowsAtOnce(e)
        THEN /\ rpc' = [f EXCEPT !.pc = "thrown", !.err = err]
             /\ invocations' = Settled("error", e)
             /\ sleeps' = sleeps
        ELSE IF SleepsBeforeRetry(f.attempt, f.retriesPerProvider)
        THEN /\ rpc' = [f EXCEPT !.pc = "sleep"]
             /\ invocations' = Settled("error", e)
             /\ sleeps' = Append(sleeps, Backoff(f.attempt))
        ELSE /\ NextAttempt(f, Settled("error", e))
             /\ sleeps' = sleeps

TaskRejects_AdvancesCursor(e) ==
    /\ rpc.pc = "task"
    /\ Catch(e)
    /\ providerCursor' = NextCursor(rpc.order[rpc.pos], rpc.n)
    /\ served' = [served EXCEPT !.clean = FALSE]
    /\ UNCHANGED <<providerPool, initOutcome, cursor0, gbtVars, gdbVars, dpsVars,
                   mainVars, envVars>>

\* a rejected read taken for an answer: empty bytecode, a timestamp after the target
TaskRejects_MovesBounds(e) ==
    /\ rpc.pc = "task"
    /\ Catch(e)
    /\ served' = [served EXCEPT !.clean = FALSE]
    /\ gdb' = IF gdb.pc = "code" THEN [gdb EXCEPT !.low = gdb.mid + 1] ELSE gdb
    /\ gbt' = IF gbt.pc = "block" THEN [gbt EXCEPT !.high = gbt.mid - 1] ELSE gbt
    /\ UNCHANGED <<poolVars, cursor0, probed, codeProbed, dpsVars, mainVars, envVars>>

\* the awaited task rejects with e
TaskRejects(e) ==
    /\ rpc.pc = "task"
    /\ Catch(e)
    /\ served' = [served EXCEPT !.clean = FALSE]
    /\ UNCHANGED <<poolVars, cursor0, gbtVars, gdbVars, dpsVars, mainVars, envVars>>

\* the sleep ends
SleepEnds ==
    /\ rpc.pc = "sleep"
    /\ NextAttempt(rpc, invocations)
    /\ UNCHANGED <<poolVars, sleeps, cursor0, served, gbtVars, gdbVars, dpsVars,
                   mainVars, envVars>>

\* the program calls rpcCall(task, retriesPerProvider) with a task of its own
rpcCall(retriesPerProvider) ==
    /\ Quiet
    /\ served.calls < MaxCalls
    /\ EnterCall(WhoAmI, retriesPerProvider)
    /\ served' = [calls |-> served.calls + 1, clean |-> served.clean /\ rpc'.pc = "task"]
    /\ initOutcome' = Undefined
    /\ gbt' = IdleGbt
    /\ probed' = <<>>
    /\ UNCHANGED <<providerPool, providerCursor, gdbVars, dpsVars, mainVars, envVars>>

-----------------------------------------------------------------------------
(* provider.js: getBlockByTime *)

Floor2_Low(x) == (x - 1) \div 2

Floor2_Up(x) == (x + 1) \div 2

Floor2(x) == x \div 2     \* Math.floor(x / 2), x >= 0

\* if (Number(block.timestamp) <= targetTs) low = mid; else high = mid - 1;
Narrow_Strict(f, ts) ==
    IF ts < f.targetTs THEN [f EXCEPT !.low = f.mid] ELSE [f EXCEPT !.high = f.mid - 1]

Narrow_PastMid(f, ts) ==
    IF ts <= f.targetTs THEN [f EXCEPT !.low = f.mid + 1] ELSE [f EXCEPT !.high = f.mid - 1]

Narrow_KeepsHigh(f, ts) ==
    IF ts <= f.targetTs THEN [f EXCEPT !.low = f.mid] ELSE f

Narrow(f, ts) ==
    IF ts <= f.targetTs THEN [f EXCEPT !.low = f.mid] ELSE [f EXCEPT !.high = f.mid - 1]

\* while (low < high) { mid = ...; block = await rpcCall((p) => p.getBlock(mid)); ... }
\* return low;   -- from the loop test to the next suspension point or to the return
GbtLoop(f, seen) ==
    IF f.low < f.high
    THEN LET mid == Floor2(f.low + f.high + 1)
         IN  /\ gbt' = [f EXCEPT !.pc = "block", !.mid = mid]
             /\ probed' = Append(seen, mid)
             /\ EnterCall(GetBlock(mid), MAX_RETRIES_PER_PROVIDER)
    ELSE /\ gbt' = [f EXCEPT !.pc = "returned", !.result = [value |-> f.low]]
         /\ probed' = seen
         /\ UNCHANGED rpcVars

\* getBlockByTime(targetTs, low, high) from its entry to its first suspension point or
\* to its return; high = -1 for high = null
GbtEnter(targetTs, low, high) ==
    LET f == [IdleGbt EXCEPT !.targetTs = targetTs, !.low = low, !.high = high,
                             !.low0 = low, !.high0 = high]
    IN  IF high = -1
        THEN /\ gbt' = [f EXCEPT !.pc = "head"]
             /\ probed' = <<>>
             /\ EnterCall(GetBlockNumber, MAX_RETRIES_PER_PROVIDER)
        ELSE GbtLoop(f, <<>>)

\* the program calls getBlockByTime(targetTs, low, high) from the top level
getBlockByTime(targetTs, low, high) ==
    /\ Quiet
    /\ GbtEnter(targetTs, low, high)
    /\ served' = [served EXCEPT !.clean = FALSE]
    /\ initOutcome' = Undefined
    /\ gdb' = IdleGdb
    /\ codeProbed' = <<>>
    /\ UNCHANGED <<providerPool, providerCursor, dpsVars, mainVars, envVars>>

\* the rpcCall that getBlockByTime awaits has ended
GbtResume ==
    /\ gbt.pc \in {"head", "block"}
    /\ rpc.pc \in {"returned", "thrown"}
    /\ IF rpc.pc = "thrown"
       THEN /\ gbt' = [gbt EXCEPT !.pc = "thrown", !.err = rpc.err]
            /\ UNCHANGED <<rpcVars, probed>>
       ELSE IF gbt.pc = "head"
       THEN GbtLoop([gbt EXCEPT !.high = rpc.result.value, !.high0 = rpc.result.value], probed)
       ELSE GbtLoop(Narrow(gbt, rpc.result.value), probed)
    /\ UNCHANGED <<poolVars, served, gdbVars, dpsVars, mainVars, envVars>>

-----------------------------------------------------------------------------
(* provider.js: getDeployBlock *)

\* if (code && code !== "0x") high = mid; else low = mid + 1;
DeployNarrow_BelowMid(f, code) ==
    IF code # "" /\ code # "0x" THEN [f EXCEPT !.high = f.mid - 1]
    ELSE [f EXCEPT !.low = f.mid + 1]

DeployNarrow(f, code) ==
    IF code # "" /\ code # "0x" THEN [f EXCEPT !.high = f.mid] ELSE [f EXCEPT !.low = f.mid + 1]

\* while (low < high) { mid = ...; code = await rpcCall((p) => p.getCode(address, mid)); ... }
\* return low;   -- from the loop test to the next suspension point or to the return
GdbLoop(f, address, seen) ==
    IF f.low < f.high
    THEN LET mid == Floor2(f.low + f.high)
         IN  /\ gdb' = [f EXCEPT !.pc = "code", !.mid = mid]
             /\ codeProbed' = Append(seen, mid)
             /\ EnterCall(GetCode(address, mid), MAX_RETRIES_PER_PROVIDER)
    ELSE /\ gdb' = [f EXCEPT !.pc = "returned", !.result = [value |-> f.low]]
         /\ codeProbed' = seen
         /\ UNCHANGED rpcVars

\* the program calls getDeployBlock(address):
\* const latest = await rpcCall((p) => p.getBlockNumber())
getDeployBlock(address) ==
    /\ Quiet
    /\ gdb' = [IdleGdb EXCEPT !.pc = "head"]
    /\ codeProbed' = <<>>
    /\ EnterCall(GetBlockNumber, MAX_RETRIES_PER_PROVIDER)
    /\ served' = [served EXCEPT !.clean = FALSE]
    /\ initOutcome' = Undefined
    /\ gbt' = IdleGbt
    /\ probed' = <<>>
    /\ UNCHANGED <<providerPool, providerCursor, dpsVars, mainVars, envVars>>

\* the rpcCall that getDeployBlock awaits has ended
GdbResume ==
    /\ gdb.pc \in {"head", "code"}
    /\ rpc.pc \in {"returned", "thrown"}
    /\ IF rpc.pc = "thrown"
       THEN /\ gdb' = [gdb EXCEPT !.pc = "thrown", !.err = rpc.err]
            /\ UNCHANGED <<rpcVars, codeProbed>>
       ELSE IF gdb.pc = "head"
       THEN GdbLoop([gdb EXCEPT !.low = 0, !.high = rpc.result.value,
                                !.latest = rpc.result.value], InputAddress, codeProbed)
       ELSE GdbLoop(DeployNarrow(gdb, rpc.result.text), InputAddress, codeProbed)
    /\ UNCHANGED <<poolVars, served, gbtVars, dpsVars, mainVars, envVars>>

-----------------------------------------------------------------------------
(* utils.js: tryCall, isValidAddress; ethers.getAddress *)

\* tryCall up to its await: the contract call handed to rpcCall
tryCall(address, fnName, args, blockTag) ==
    EnterCall(Call(address, fnName, args, blockTag), MAX_RETRIES_PER_PROVIDER)

\* tryCall after its await: { ok: true, value } or, whatever rpcCall threw, { ok: false }
TryCallResult ==
    IF rpc.pc = "returned" THEN [ok |-> TRUE, value |-> rpc.result] ELSE [ok |-> FALSE]

\* ethers.isAddress, over the addresses of the model
isValidAddress(address) ==
    \E k \in KnownAddresses : toLowerCase(k) = toLowerCase(address)

\* ethers.getAddress: the checksum spelling of a valid address
getAddress(address) ==
    CHOOSE k \in KnownAddresses : toLowerCase(k) = toLowerCase(address)

-----------------------------------------------------------------------------
(* config.js: resolveTokenSymbol, resolveMinter, preferredFunctionsFromSymbol, *)
(* discoverPriceSource.  Strings held by the frame are [text |-> s], null is Null. *)

preferredFunctionsFromSymbol_BBFirst(symbol) ==
    IF symbol = Null \/ symbol.text = "" THEN PRICE_FUNCTIONS.standard
    ELSE LET x == toUpperCase(symbol.text)
         IN  IF includes(x, "BB") THEN PRICE_FUNCTIONS.BB
             ELSE IF includes(x, "AA") THEN PRICE_FUNCTIONS.AA
             ELSE PRICE_FUNCTIONS.standard

preferredFunctionsFromSymbol_AsWritten(symbol) ==
    IF symbol = Null \/ symbol.text = "" THEN PRICE_FUNCTIONS.standard
    ELSE LET x == symbol.text
         IN  IF includes(x, "AA") THEN PRICE_FUNCTIONS.AA
             ELSE IF includes(x, "BB") THEN PRICE_FUNCTIONS.BB
             ELSE PRICE_FUNCTIONS.standard

preferredFunctionsFromSymbol(symbol) ==
    IF symbol = Null \/ symbol.text = "" THEN PRICE_FUNCTIONS.standard
    ELSE LET x == toUpperCase(symbol.text)
         IN  IF includes(x, "AA") THEN PRICE_FUNCTIONS.AA
             ELSE IF includes(x, "BB") THEN PRICE_FUNCTIONS.BB
             ELSE PRICE_FUNCTIONS.standard

\* if (minter) candidates.push({address: minter, ...}); candidates.push({address: inputAddress, ...})
Candidates_InputFirst(minter, inputAddress) ==
    IF minter # Null THEN << inputAddress, minter.text >> ELSE << inputAddress >>

Candidates(minter, inputAddress) ==
    IF minter # Null THEN << minter.text, inputAddress >> ELSE << inputAddress >>

\* opts.priceFn ? [opts.priceFn] : preferredFunctionsFromSymbol(tokenSymbol)
FunctionOrder_OverrideFirst(o, tokenSymbol) ==
    IF o.priceFn # "" THEN << o.priceFn >> \o preferredFunctionsFromSymbol(tokenSymbol)
    ELSE preferredFunctionsFromSymbol(tokenSymbol)

FunctionOrder(o, tokenSymbol) ==
    IF o.priceFn # "" THEN << o.priceFn >> ELSE preferredFunctionsFromSymbol(tokenSymbol)

\* !(!Number.isFinite(decimals) || decimals < 0 || decimals > 30)
DecimalsInRange_AnyUint8(decimals) == ~(decimals < 0 \/ decimals > 255)

DecimalsInRange(decimals) == ~(decimals < 0 \/ decimals > 30)

\* the result of a direct discovery
DirectResult(d, inputAddress) ==
    [ sourceAddress |-> d.candidates[d.c], sourceFunction |-> d.functionOrder[d.f],
      mode |-> "direct", tokenAddress |-> inputAddress, tokenSymbol |-> d.tokenSymbol,
      minterAddress |-> d.minterAddress ]

\* the result of an ERC4626 discovery
Erc4626Result(d, inputAddress) ==
    [ sourceAddress |-> d.candidates[d.c], sourceFunction |-> "convertToAssets",
      mode |-> "erc4626", oneShare |-> d.oneShare, shareDecimals |-> d.decimals,
      tokenAddress |-> inputAddress, tokenSymbol |-> d.tokenSymbol,
      minterAddress |-> d.minterAddress ]

\* new Error(`could not discover price source for ${inputAddress}; tried candidates: ...`)
DiscoveryError_InputOnly(inputAddress, candidates) ==
    NewError("could not discover price source for " \o inputAddress
             \o "; tried candidates: " \o inputAddress)

DiscoveryError(inputAddress, candidates) ==
    NewError("could not discover price source for " \o inputAddress
             \o "; tried candidates: " \o join(candidates, ", "))

\* a tryCall on a candidate, and what it came back with: probe.ok, probe.value
Probe(address, fn, args) ==
    [address |-> address, fn |-> fn, args |-> args, ok |-> "pending", value |-> Undefined]

ProbeSettled(ok) ==
    [tried EXCEPT ![Len(tried)].ok = IF ok THEN "yes" ELSE "no",
                  ![Len(tried)].value = IF ok THEN rpc.result ELSE Undefined]

\* the ERC4626 loop from candidate c on, up to the next suspension point or to the throw
Erc4626Loop(d, c, log) ==
    IF c <= Len(d.candidates)
    THEN /\ dps' = [d EXCEPT !.at = "decimals", !.c = c]
         /\ tried' = Append(log, Probe(d.candidates[c], "decimals", <<>>))
         /\ tryCall(d.candidates[c], "decimals", <<>>, d.latest)
    ELSE /\ dps' = [d EXCEPT !.pc = "thrown", !.c = c,
                             !.err = DiscoveryError(d.inputAddress, d.candidates)]
         /\ tried' = log
         /\ UNCHANGED rpcVars

\* where the loops go after the direct probe (c, f) has failed
AfterDirect_PerCandidate(d) ==
    IF d.f < Len(d.functionOrder) THEN [loop |-> "direct", c |-> d.c, f |-> d.f + 1]
    ELSE [loop |-> "erc4626", c |-> d.c, f |-> 0]

AfterDirect(d) ==
    IF d.f < Len(d.functionOrder) THEN [loop |-> "direct", c |-> d.c, f |-> d.f + 1]
    ELSE IF d.c < Len(d.candidates) THEN [loop |-> "direct", c |-> d.c + 1, f |-> 1]
    ELSE [loop |-> "erc4626", c |-> 1, f |-> 0]

\* probe = await tryCall(c.address, sig, fn, [], latest)
DirectProbe(d, c, f, log) ==
    /\ dps' = [d EXCEPT !.at = "direct", !.c = c, !.f = f]
    /\ tried' = Append(log, Probe(d.candidates[c], d.functionOrder[f], <<>>))
    /\ tryCall(d.candidates[c], d.functionOrder[f], <<>>, d.latest)

\* discoverPriceSource from the return of resolveMinter to the first probe
AfterResolveMinter(d, minter) ==
    LET e == [d EXCEPT !.minterAddress = minter,
                       !.candidates = Candidates(minter, d.inputAddress),
                       !.functionOrder = FunctionOrder(d.opts, d.tokenSymbol)]
    IN  DirectProbe(e, 1, 1, tried)

\* the program calls discoverPriceSource(inputAddress, opts):
\* const latest = await rpcCall((p) => p.getBlockNumber())
discoverPriceSource(inputAddress, o) ==
    /\ Quiet
    /\ dps' = [IdleDps EXCEPT !.pc = "await", !.at = "latest",
                              !.inputAddress = inputAddress, !.opts = o]
    /\ tried' = <<>>
    /\ EnterCall(GetBlockNumber, MAX_RETRIES_PER_PROVIDER)
    /\ served' = [served EXCEPT !.clean = FALSE]
    /\ initOutcome' = Undefined
    /\ UNCHANGED <<providerPool, providerCursor, gbtVars, gdbVars, mainVars, envVars>>

\* the rpcCall that discoverPriceSource (or the function it has called) awaits has
\* ended: the code up to the next suspension point, to the return or to the throw
DpsResume ==
    /\ dps.pc = "await"
    /\ rpc.pc \in {"returned", "thrown"}
    /\ LET res == TryCallResult
       IN  CASE dps.at = "latest" ->
                  \* not inside a try: what rpcCall throws, discoverPriceSource throws
                  IF rpc.pc = "thrown"
                  THEN /\ dps' = [dps EXCEPT !.pc = "thrown", !.err = rpc.err]
                       /\ UNCHANGED <<rpcVars, tried>>
                  ELSE \* resolveTokenSymbol(inputAddress, latest) up to its await
                       /\ dps' = [dps EXCEPT !.at = "symbol", !.latest = rpc.result.value]
                       /\ tried' = tried
                       /\ tryCall(dps.inputAddress, "symbol", <<>>, rpc.result.value)
             [] dps.at = "symbol" ->
                  \* if (!res.ok || typeof res.value !== "string") return null;
                  \* then resolveMinter(inputAddress, latest) up to its await
                  /\ dps' = [dps EXCEPT !.at = "minter",
                                !.tokenSymbol = IF res.ok /\ "text" \in DOMAIN res.value
                                                THEN res.value ELSE Null]
                  /\ tried' = tried
                  /\ tryCall(dps.inputAddress, "minter", <<>>, dps.latest)
             [] dps.at = "minter" ->
                  IF ~res.ok THEN AfterResolveMinter(dps, Null)
                  ELSE IF ~isValidAddress(res.value.text) THEN AfterResolveMinter(dps, Null)
                  ELSE LET checksum == getAddress(res.value.text)
                       IN  /\ dps' = [dps EXCEPT !.at = "code", !.checksum = checksum]
                           /\ tried' = tried
                           /\ EnterCall(GetCode(checksum, dps.latest),
                                        MAX_RETRIES_PER_PROVIDER)
             [] dps.at = "code" ->
                  \* not inside a try: what rpcCall throws, resolveMinter throws, and
                  \* discoverPriceSource with it
                  IF rpc.pc = "thrown"
                  THEN /\ dps' = [dps EXCEPT !.pc = "thrown", !.err = rpc.err]
                       /\ UNCHANGED <<rpcVars, tried>>
                  ELSE LET code == rpc.result.text
                       IN  AfterResolveMinter(dps, IF code # "" /\ code # "0x"
                                                   THEN [text |-> dps.checksum] ELSE Null)
             [] dps.at = "direct" ->
                  IF res.ok
                  THEN /\ dps' = [dps EXCEPT !.pc = "returned",
                                             !.result = DirectResult(dps, dps.inputAddress)]
                       /\ tried' = ProbeSettled(TRUE)
                       /\ UNCHANGED rpcVars
                  ELSE LET next == AfterDirect(dps)
                       IN  IF next.loop = "direct"
                           THEN DirectProbe(dps, next.c, next.f, ProbeSettled(FALSE))
                           ELSE Erc4626Loop(dps, next.c, ProbeSettled(FALSE))
             [] dps.at = "decimals" ->
                  IF ~res.ok THEN Erc4626Loop(dps, dps.c + 1, ProbeSettled(FALSE))
                  ELSE LET decimals == res.value.value
                       IN  IF ~DecimalsInRange(decimals)
                           THEN Erc4626Loop(dps, dps.c + 1, ProbeSettled(TRUE))
                           ELSE LET oneShare == BigPowTen(decimals)
                                IN  /\ dps' = [dps EXCEPT !.at = "convert",
                                                   !.decimals = decimals,
                                                   !.oneShare = oneShare]
                                    /\ tried' = Append(ProbeSettled(TRUE),
                                                  Probe(dps.candidates[dps.c],
                                                        "convertToAssets", <<oneShare>>))
                                    /\ tryCall(dps.candidates[dps.c], "convertToAssets",
                                               <<oneShare>>, dps.latest)
             [] dps.at = "convert" ->
                  IF res.ok
                  THEN /\ dps' = [dps EXCEPT !.pc = "returned",
                                             !.result = Erc4626Result(dps, dps.inputAddress)]
                       /\ tried' = ProbeSettled(TRUE)
                       /\ UNCHANGED rpcVars
                  ELSE Erc4626Loop(dps, dps.c + 1, ProbeSettled(FALSE))
    /\ UNCHANGED <<poolVars, served, gbtVars, gdbVars, mainVars, envVars>>

-----------------------------------------------------------------------------
(* backfill-price.js: readPriceAtBlock and main, from the range resolution on *)

\* if (startBlock == null) startBlock = deployBlock; if (endBlock == null) endBlock =
\* latestBlock; if (startBlock < deployBlock) { console.warn(...); startBlock = deployBlock }
ResolveRange_NoClamp(m) ==
    LET start == IF m.startBlock = -1 THEN m.deployBlock ELSE m.startBlock
        end == IF m.endBlock = -1 THEN m.latestBlock ELSE m.endBlock
    IN  [m EXCEPT !.startBlock = start, !.endBlock = end, !.warned = FALSE]

ResolveRange(m) ==
    LET start == IF m.startBlock = -1 THEN m.deployBlock ELSE m.startBlock
        end == IF m.endBlock = -1 THEN m.latestBlock ELSE m.endBlock
    IN  IF start < m.deployBlock
        THEN [m EXCEPT !.startBlock = m.deployBlock, !.endBlock = end, !.warned = TRUE]
        ELSE [m EXCEPT !.startBlock = start, !.endBlock = end, !.warned = FALSE]

\* if (endBlock < startBlock) throw new Error(`end block ... is less than start block ...`)
RangeError_Never(m) == FALSE

RangeError(m) == m.endBlock < m.startBlock

\* Number.isFinite(opts.blockStep) && opts.blockStep > 0 ? opts.blockStep : null
BlockStep(given) == IF given > 0 THEN given ELSE 0

\* if (date !== lastDate)
EmitsRow_Always(date, lastDate) == TRUE

EmitsRow(date, lastDate) == date # lastDate

\* const delta = prevPrice === null ? 0n : priceValue - prevPrice
Delta_FromZero(prevPrice, priceValue) ==
    priceValue - (IF prevPrice = Null THEN 0 ELSE prevPrice.value)

Delta(prevPrice, priceValue) == IF prevPrice = Null THEN 0 ELSE priceValue - prevPrice.value

\* the row written for the block: `${date},${block},${priceValue},${delta}`
Row_GainsOnly(m, date, priceValue) ==
    [date |-> date, block |-> m.block, price |-> priceValue,
     delta |-> Max2(0, Delta(m.prevPrice, priceValue))]

Row(m, date, priceValue) ==
    [date |-> date, block |-> m.block, price |-> priceValue,
     delta |-> Delta(m.prevPrice, priceValue)]

\* if (peakPrice === null || priceValue > peakPrice) peakPrice = priceValue
Peak_Latest(peakPrice, priceValue) == priceValue

Peak(peakPrice, priceValue) ==
    IF peakPrice = Null \/ priceValue > peakPrice.value THEN priceValue ELSE peakPrice.value

\* Number(((peakPrice - priceValue) * 10000n) / peakPrice) / 100, in hundredths of a
\* percent: the division of BigInts truncates
Drawdown(peakPrice, priceValue) == ((peakPrice - priceValue) * 10000) \div peakPrice

\* if (peakPrice && peakPrice > 0n) { ...; if (drawdown > maxDrawdown) maxDrawdown = drawdown }
MaxDrawdown(maxDrawdown, peakPrice, priceValue) ==
    IF peakPrice # 0 /\ peakPrice > 0
    THEN Max2(maxDrawdown, Drawdown(peakPrice, priceValue))
    ELSE maxDrawdown

\* the locals after the body of if (date !== lastDate)
AfterRow(m, ts, date, priceValue) ==
    LET first == m.firstTs = Null
        peak == Peak(m.peakPrice, priceValue)
    IN  [m EXCEPT !.peakPrice = [value |-> peak],
                  !.maxDrawdown = MaxDrawdown(m.maxDrawdown, peak, priceValue),
                  !.firstTs = IF first THEN [value |-> ts] ELSE m.firstTs,
                  !.firstPrice = IF first THEN [value |-> priceValue] ELSE m.firstPrice,
                  !.firstDate = IF first THEN [text |-> date] ELSE m.firstDate,
                  !.firstBlockSeen = IF first THEN [value |-> m.block] ELSE m.firstBlockSeen,
                  !.lastTs = [value |-> ts],
                  !.lastPrice = [value |-> priceValue],
                  !.lastDateSeen = [text |-> date],
                  !.lastBlockSeen = [value |-> m.block],
                  !.prevPrice = [value |-> priceValue],
                  !.lastDate = date,
                  !.observations = m.observations + 1]

\* the locals after lines 213-245, for the block read with timestamp ts and price
Observe_TracksSampled(m, ts, priceValue) ==
    LET date == DateOf(ts)
    IN  IF EmitsRow(date, m.lastDate) THEN AfterRow(m, ts, date, priceValue)
        ELSE [m EXCEPT !.prevPrice = [value |-> priceValue]]

Observe(m, ts, priceValue) ==
    LET date == DateOf(ts)
    IN  IF EmitsRow(date, m.lastDate) THEN AfterRow(m, ts, date, priceValue) ELSE m

\* the stream after lines 213-245
Written(m, ts, priceValue, log) ==
    LET date == DateOf(ts)
    IN  IF EmitsRow(date, m.lastDate)
        THEN [log EXCEPT !.rows = Append(log.rows, Row(m, date, priceValue))]
        ELSE log

\* const nextBlock = Math.min(block + blockStep, endBlock)
NextFixed_PastEnd(block, blockStep, endBlock) == block + blockStep

NextFixed(block, blockStep, endBlock) == Min2(block + blockStep, endBlock)

\* const nextTs = Number(blk.timestamp) + 24 * 3600
NextTs_SameDay(ts) == ts

NextTs_ThreeDays(ts) == ts + 72 * 3600

NextTs(ts) == ts + 24 * 3600

\* the low bound of getBlockByTime(nextTs, block + 1, endBlock)
NextLow_Same(block) == block

NextLow(block) == block + 1

\* days = firstTs != null && lastTs != null ? Math.max(1, Math.round((lastTs - firstTs) / 86400)) : 0
Days_Floor(firstTs, lastTs) ==
    IF firstTs # Null /\ lastTs # Null
    THEN Max2(1, (lastTs.value - firstTs.value) \div SecondsPerDay)
    ELSE 0

Days(firstTs, lastTs) ==
    IF firstTs # Null /\ lastTs # Null
    THEN Max2(1, Round(lastTs.value - firstTs.value, SecondsPerDay))
    ELSE 0

\* missingDays = days > 0 ? Math.max(0, days + 1 - observations) : 0
MissingDays(days, observations) == IF days > 0 THEN Max2(0, days + 1 - observations) ELSE 0

\* the summary block, as far as it is derived from the observations
Summary(m) ==
    LET days == Days(m.firstTs, m.lastTs)
    IN  [ startDate |-> m.firstDate, endDate |-> m.lastDateSeen,
          startBlock |-> m.firstBlockSeen, endBlock |-> m.lastBlockSeen,
          startPrice |-> m.firstPrice, endPrice |-> m.lastPrice,
          days |-> days, observations |-> m.observations,
          missingDays |-> MissingDays(days, m.observations),
          maxDrawdown |-> m.maxDrawdown,
          samplingMode |-> IF m.blockStep # 0 THEN "blockStep" ELSE "daily" ]

\* after the loop: the summary is written and main returns
Finish(m, log) ==
    /\ main' = [m EXCEPT !.pc = "done", !.at = ""]
    /\ stream' = [log EXCEPT !.summary = Summary(m)]
    /\ visited' = visited
    /\ UNCHANGED <<rpcVars, gbtVars>>

\* main rejects: the process exits with what the stream holds
Abort_BestEffort(m, e) == Finish(m, stream)

Abort(m, e) ==
    /\ main' = [m EXCEPT !.pc = "aborted", !.err = e]
    /\ UNCHANGED <<stream, visited, rpcVars, gbtVars>>

\* for (...; block <= endBlock; ) { const blk = await rpcCall((p) => p.getBlock(block)); ...
\* -- from the loop test to the suspension point, or past the loop to the return
Loop_PastEnd(m, log) ==
    IF m.block <= m.endBlock + 1
    THEN /\ main' = [m EXCEPT !.pc = "await", !.at = "block", !.blk = Undefined]
         /\ stream' = log
         /\ visited' = Append(visited, m.block)
         /\ EnterCall(GetBlock(m.block), MAX_RETRIES_PER_PROVIDER)
         /\ UNCHANGED gbtVars
    ELSE Finish(m, log)

Loop(m, log) ==
    IF m.block <= m.endBlock
    THEN /\ main' = [m EXCEPT !.pc = "await", !.at = "block", !.blk = Undefined]
         /\ stream' = log
         /\ visited' = Append(visited, m.block)
         /\ EnterCall(GetBlock(m.block), MAX_RETRIES_PER_PROVIDER)
         /\ UNCHANGED gbtVars
    ELSE Finish(m, log)

\* readPriceAtBlock(discovery, block) up to its await, or to its throw
readPriceAtBlock(m, discovery, block) ==
    IF discovery.mode = "direct"
    THEN /\ main' = [m EXCEPT !.at = "price"]
         /\ tryCall(discovery.sourceAddress, discovery.sourceFunction, <<>>, block)
         /\ UNCHANGED <<stream, visited, gbtVars>>
    ELSE IF discovery.mode = "erc4626"
    THEN /\ main' = [m EXCEPT !.at = "price"]
         /\ tryCall(discovery.sourceAddress, "convertToAssets", <<discovery.oneShare>>, block)
         /\ UNCHANGED <<stream, visited, gbtVars>>
    ELSE Abort(m, NewError("unsupported mode: " \o discovery.mode))

\* readPriceAtBlock after its await: if (!res.ok) throw new Error(`failed to read ...`)
ReadFailure(m) ==
    NewError("failed to read "
             \o (IF m.discovery.mode = "direct" THEN m.discovery.sourceFunction
                 ELSE "convertToAssets")
             \o " at block " \o ToString(m.block))

\* main from the range resolution (the pool is initialized, discovery, latestBlock and
\* deployBlock have been obtained) to the first suspension point of the sampling loop
MainStart ==
    /\ main.pc = "range"
    /\ RpcQuiet /\ GbtQuiet
    /\ LET m == ResolveRange(main)
       IN  IF RangeError(m)
           THEN Abort(m, NewError("end block " \o ToString(m.endBlock)
                                  \o " is less than start block " \o ToString(m.startBlock)))
           ELSE \* opts and deployBlock are not read again
                Loop([m EXCEPT !.blockStep = BlockStep(main.blockStep), !.deployBlock = 0,
                               !.block = m.startBlock], EmptyStream)
    /\ UNCHANGED <<poolVars, served, gdbVars, dpsVars, envVars>>

\* what main awaits has ended: the code up to the next suspension point, to the return
\* or to the rejection of main
MainResume ==
    /\ main.pc = "await"
    /\ CASE main.at = "block" ->
              /\ rpc.pc \in {"returned", "thrown"}
              /\ IF rpc.pc = "thrown" THEN Abort(main, rpc.err)
                 ELSE readPriceAtBlock([main EXCEPT !.blk = rpc.result], main.discovery,
                                       main.block)
         [] main.at = "price" ->
              /\ rpc.pc \in {"returned", "thrown"}
              /\ IF ~TryCallResult.ok THEN Abort(main, ReadFailure(main))
                 ELSE LET ts == main.blk.value
                          priceValue == TryCallResult.value.value
                          m == Observe(main, ts, priceValue)
                          log == Written(main, ts, priceValue, stream)
                      IN  IF m.blockStep # 0
                          THEN IF m.block = m.endBlock THEN Finish(m, log)
                               ELSE LET nextBlock == NextFixed(m.block, m.blockStep, m.endBlock)
                                    IN  IF nextBlock <= m.block THEN Finish(m, log)
                                        ELSE Loop([m EXCEPT !.block = nextBlock], log)
                          ELSE /\ main' = [m EXCEPT !.at = "next"]
                               /\ stream' = log
                               /\ visited' = visited
                               /\ GbtEnter(NextTs(ts), NextLow(m.block), m.endBlock)
         [] main.at = "next" ->
              /\ gbt.pc \in {"returned", "thrown"}
              /\ IF gbt.pc = "thrown" THEN Abort(main, gbt.err)
                 ELSE LET nextBlock == gbt.result.value
                      IN  IF nextBlock <= main.block THEN Finish(main, stream)
                          ELSE Loop([main EXCEPT !.block = nextBlock], stream)
    /\ UNCHANGED <<poolVars, served, gdbVars, dpsVars, envVars>>

-----------------------------------------------------------------------------

Init ==
    /\ providerPool = <<>>
    /\ providerCursor = 0
    /\ initOutcome = Undefined
    /\ rpc = IdleFrame
    /\ invocations = <<>>
    /\ sleeps = <<>>
    /\ cursor0 = 0
    /\ served = [calls |-> 0, clean |-> TRUE]
    /\ gbt = IdleGbt
    /\ probed = <<>>
    /\ gdb = IdleGdb
    /\ codeProbed = <<>>
    /\ dps = IdleDps
    /\ tried = <<>>
    /\ chain = <<1>>
    /\ query = [targetTs |-> 0, low |-> 0, high |-> -1]
    /\ deployedAt = 0
    /\ opts = NoOpts
    /\ main = IdleMain
    /\ stream = EmptyStream
    /\ visited = <<>>

Next ==
    \/ \E rpcUrls \in UrlArgs : initializeProviderPool(rpcUrls)
    \/ \E r \in 0..MaxRetries : rpcCall(r)
    \/ TaskResolves
    \/ \E e \in TaskErrors : TaskRejects(e)
    \/ SleepEnds

Spec == Init /\ [][Next]_vars

(* The two binary searches as the backfill uses them, one after the other:       *)
(* getDeployBlock(address), and getBlockByTime(ts, 0, latestBlock) over the      *)
(* whole chain                                                                    *)

RangeQueries == { q \in Queries : q.low = 0 /\ q.high = MaxHead }

InitSearches ==
    /\ providerPool = <<>>
    /\ providerCursor = 0
    /\ initOutcome = Undefined
    /\ rpc = IdleFrame
    /\ invocations = <<>>
    /\ sleeps = <<>>
    /\ cursor0 = 0
    /\ served = [calls |-> 0, clean |-> TRUE]
    /\ gbt = IdleGbt
    /\ probed = <<>>
    /\ gdb = IdleGdb
    /\ codeProbed = <<>>
    /\ dps = IdleDps
    /\ tried = <<>>
    /\ chain \in Chains
    /\ query \in RangeQueries
    /\ deployedAt \in DeployBlocks
    \* neither search reads the input of the other: one input varies at a time
    /\ query.targetTs = 0 \/ deployedAt = 0
    /\ opts = NoOpts
    /\ main = IdleMain
    /\ stream = EmptyStream
    /\ visited = <<>>

NextSearches ==
    \/ \E k \in 1..MaxUrlsResolver : initializeProviderPool([list |-> SubSeq(Urls, 1, k)])
    \/ getDeployBlock(InputAddress)
    \/ GdbResume
    \/ getBlockByTime(query.targetTs, query.low, query.high)
    \/ GbtResume
    \/ TaskResolves
    \/ \E e \in TaskErrors : TaskRejects(e)
    \/ SleepEnds

SpecSearches == InitSearches /\ [][NextSearches]_vars

\* the event loop runs the continuation of every settled promise and of every expired
\* timer, and a provider answers every request, with a value or with an error
FairSpecSearches == SpecSearches /\ WF_vars(NextSearches)

(* Discovery of the price source on top of the pool *)

InitDiscovery ==
    /\ providerPool = <<>>
    /\ providerCursor = 0
    /\ initOutcome = Undefined
    /\ rpc = IdleFrame
    /\ invocations = <<>>
    /\ sleeps = <<>>
    /\ cursor0 = 0
    /\ served = [calls |-> 0, clean |-> TRUE]
    /\ gbt = IdleGbt
    /\ probed = <<>>
    /\ gdb = IdleGdb
    /\ codeProbed = <<>>
    /\ dps = IdleDps
    /\ tried = <<>>
    /\ chain = [b \in 1..(MaxHead + 1) |-> 1]   \* discovery reads the head's number only
    /\ query = [targetTs |-> 0, low |-> 0, high |-> -1]
    /\ deployedAt = 0
    /\ opts \in Options
    /\ main = IdleMain
    /\ stream = EmptyStream
    /\ visited = <<>>

NextDiscovery ==
    \/ \E k \in 1..MaxUrlsDiscovery : initializeProviderPool([list |-> SubSeq(Urls, 1, k)])
    \/ discoverPriceSource(InputAddress, opts)
    \/ DpsResume
    \/ TaskResolves
    \/ \E e \in TaskErrors : TaskRejects(e)
    \/ SleepEnds

SpecDiscovery == InitDiscovery /\ [][NextDiscovery]_vars

(* The backfill from its range resolution on, over an initialized pool *)

MainAtRangeResolution ==
    { [IdleMain EXCEPT !.pc = "range", !.discovery = d, !.latestBlock = MaxHeadBackfill,
                       !.deployBlock = dep, !.startBlock = sb, !.endBlock = eb,
                       !.blockStep = step] :
        d \in Discoveries, dep \in 0..MaxHeadBackfill, sb \in -1..MaxHeadBackfill,
        eb \in -1..MaxHeadBackfill, step \in -1..MaxStep }

InitBackfill ==
    /\ providerPool = MakePool(BackfillUrls)
    /\ providerCursor = 0
    /\ initOutcome = Undefined
    /\ rpc = IdleFrame
    /\ invocations = <<>>
    /\ sleeps = <<>>
    /\ cursor0 = 0
    /\ served = [calls |-> 0, clean |-> TRUE]
    /\ gbt = IdleGbt
    /\ probed = <<>>
    /\ gdb = IdleGdb
    /\ codeProbed = <<>>
    /\ dps = IdleDps
    /\ tried = <<>>
    /\ chain \in DayChains
    /\ query = [targetTs |-> 0, low |-> 0, high |-> -1]
    /\ deployedAt = 0
    /\ opts = NoOpts
    /\ main \in MainAtRangeResolution
    /\ stream = EmptyStream
    /\ visited = <<>>

NextBackfill ==
    \/ MainStart
    \/ MainResume
    \/ GbtResume
    \/ TaskResolves
    \/ \E e \in TaskErrors : TaskRejects(e)
    \/ SleepEnds

SpecBackfill == InitBackfill /\ [][NextBackfill]_vars

\* the event loop runs the continuation of every settled promise and of every expired
\* timer, and a provider answers every request, with a value or with an error
FairSpecBackfill == SpecBackfill /\ WF_vars(NextBackfill)

(* The classification of errors, over a pool of one endpoint *)

InitClassify ==
    /\ providerPool = MakePool(BackfillUrls)
    /\ providerCursor = 0
    /\ initOutcome = Undefined
    /\ rpc = IdleFrame
    /\ invocations = <<>>
    /\ sleeps = <<>>
    /\ cursor0 = 0
    /\ served = [calls |-> 0, clean |-> TRUE]
    /\ gbt = IdleGbt
    /\ probed = <<>>
    /\ gdb = IdleGdb
    /\ codeProbed = <<>>
    /\ dps = IdleDps
    /\ tried = <<>>
    /\ chain = <<1>>
    /\ query = [targetTs |-> 0, low |-> 0, high |-> -1]
    /\ deployedAt = 0
    /\ opts = NoOpts
    /\ main = IdleMain
    /\ stream = EmptyStream
    /\ visited = <<>>

NextClassify ==
    \/ served.calls = 0 /\ rpcCall(MAX_RETRIES_PER_PROVIDER)
    \/ TaskResolves
    \/ \E e \in ErrorShapes : TaskRejects(e)
    \/ SleepEnds

SpecClassify == InitClassify /\ [][NextClassify]_vars

(* The resolver on top of the pool *)

InitResolver ==
    /\ providerPool = <<>>
    /\ providerCursor = 0
    /\ initOutcome = Undefined
    /\ rpc = IdleFrame
    /\ invocations = <<>>
    /\ sleeps = <<>>
    /\ cursor0 = 0
    /\ served = [calls |-> 0, clean |-> TRUE]
    /\ gbt = IdleGbt
    /\ probed = <<>>
    /\ gdb = IdleGdb
    /\ codeProbed = <<>>
    /\ dps = IdleDps
    /\ tried = <<>>
    /\ chain \in Chains
    /\ query \in Queries
    /\ deployedAt = 0
    /\ opts = NoOpts
    /\ main = IdleMain
    /\ stream = EmptyStream
    /\ visited = <<>>

NextResolver ==
    \/ \E k \in 1..MaxUrlsResolver : initializeProviderPool([list |-> SubSeq(Urls, 1, k)])
    \/ getBlockByTime(query.targetTs, query.low, query.high)
    \/ GbtResume
    \/ TaskResolves
    \/ \E e \in TaskErrors : TaskRejects(e)
    \/ SleepEnds

SpecResolver == InitResolver /\ [][NextResolver]_vars

-----------------------------------------------------------------------------
(* Properties of the provider pool, checked under Spec *)

LastInvocation == invocations[Len(invocations)]

FailedRetriably(i) == invocations[i].out = "error" /\ Retriable[invocations[i].err]
FailedFatally(i) == invocations[i].out = "error" /\ ~Retriable[invocations[i].err]

\* C1: when a task attempt fails with an error classified non-retriable, rpcCall throws
\* that very error at once: the failing invocation is the last one of the call, on
\* whichever endpoint and attempt it happens (one invocation in all when it is the
\* first attempt on the first endpoint).
C1_NonRetriableFailsFast ==
    \A i \in 1..Len(invocations) :
        FailedFatally(i) =>
            /\ i = Len(invocations)
            /\ rpc.pc = "thrown"
            /\ rpc.err = [thrownBy |-> i, error |-> invocations[i].err]

C1_Witness ==
    /\ rpc.pc = "thrown"
    /\ Len(invocations) >= 3
    /\ FailedFatally(Len(invocations))
    /\ rpc.pos >= 2 /\ rpc.pos < rpc.n

\* the first call on a freshly initialized pool, whose first M endpoints failed every
\* attempt retriably and whose endpoint M+1 then succeeded
FirstMFailThenSuccess(M) ==
    LET r == rpc.retriesPerProvider
    IN  /\ rpc.pc = "returned"
        /\ served.calls = 1 /\ cursor0 = 0
        /\ M < rpc.n
        /\ Len(invocations) = M * r + 1
        /\ \A i \in 1..(M * r) : invocations[i].idx = (i - 1) \div r /\ FailedRetriably(i)
        /\ LastInvocation.idx = M /\ LastInvocation.out = "ok"

\* C2 (as amended): on a freshly initialized pool of N endpoints whose first M endpoints
\* (0 <= M < N) fail every attempt retriably and whose endpoint M+1 succeeds, rpcCall
\* returns the result of endpoint M+1 and leaves the cursor at (M+1) mod N.
C2_CursorAfterFailover ==
    \A M \in 0..MaxUrls :
        FirstMFailThenSuccess(M) =>
            /\ rpc.result.value = M + 1
            /\ providerCursor = (M + 1) % rpc.n

\* C2 as stated: the cursor afterwards is (M+2) mod N.
C2_AsStated ==
    \A M \in 0..MaxUrls :
        FirstMFailThenSuccess(M) =>
            /\ rpc.result.value = M + 1
            /\ providerCursor = (M + 2) % rpc.n

C2_Witness ==
    /\ FirstMFailThenSuccess(1)
    /\ rpc.n = 3
    /\ rpc.retriesPerProvider = 2
    /\ providerCursor = 2

\* a step of rpcCall: of a call in flight, or the entry of a call
CallStep == rpc.pc \in {"task", "sleep"} \/ served'.calls = served.calls + 1

\* C3: a step of rpcCall changes the cursor only when the task attempt succeeds, and then
\* to (index of the succeeding endpoint + 1) mod n; a call that ends by throwing leaves
\* the cursor as it was when the call was entered.
C3_CursorMovesOnlyOnSuccess ==
    [][ CallStep =>
          /\ \/ providerCursor' = providerCursor
             \/ /\ rpc.pc = "task" /\ rpc'.pc = "returned"
                /\ providerCursor' = (rpc.order[rpc.pos] + 1) % rpc.n
          /\ rpc'.pc = "thrown" => providerCursor' = cursor0' ]_vars

C3_Witness ==
    /\ rpc.pc = "thrown"
    /\ rpc.n >= 2
    /\ Len(invocations) = rpc.n * rpc.retriesPerProvider
    /\ Len(invocations) >= 4
    /\ cursor0 >= 1
    /\ providerCursor = cursor0

\* C4: once the pool has been initialized with n >= 1 URLs, 0 <= cursor < n, whatever
\* calls have been made with whatever retriesPerProvider.
C4_CursorInRange ==
    Len(providerPool) >= 1 => providerCursor \in 0..(Len(providerPool) - 1)

C4_Witness ==
    /\ rpc.pc = "returned"
    /\ Len(providerPool) = rpc.n /\ rpc.n >= 2
    /\ LastInvocation.idx = rpc.n - 1
    /\ initOutcome = Undefined
    /\ providerCursor = 0

RECURSIVE SleepsFor(_, _)
SleepsFor(log, r) ==
    IF log = <<>> THEN <<>>
    ELSE LET h == log[1]
             rest == SleepsFor(Tail(log), r)
         IN  IF h.out = "error" /\ Retriable[h.err] /\ h.attempt < r - 1
             THEN <<RETRY_DELAY_MS * (h.attempt + 1)>> \o rest
             ELSE rest

C6_ExhaustionThrowsLastError ==
    (/\ rpc.pc = "thrown"
     /\ Len(invocations) > 0
     /\ \A i \in 1..Len(invocations) : FailedRetriably(i))
        => /\ Len(invocations) = rpc.n * rpc.retriesPerProvider
           /\ rpc.err = [thrownBy |-> Len(invocations), error |-> LastInvocation.err]

C6_Witness ==
    /\ rpc.pc = "thrown"
    /\ rpc.n >= 2 /\ rpc.retriesPerProvider >= 2
    /\ Len(invocations) = rpc.n * rpc.retriesPerProvider
    /\ \A i \in 1..Len(invocations) : FailedRetriably(i)
    /\ rpc.err.thrownBy = Len(invocations)

\* C7: initializeProviderPool with a missing or empty URL list throws "no RPC URLs
\* configured"; with a non-empty list it builds one endpoint per URL, in order, and
\* sets the cursor to 0 whatever it was.
C7_Initialize ==
    initOutcome # Undefined =>
        IF initOutcome.rpcUrls = Null \/ Len(initOutcome.rpcUrls.list) = 0
        THEN initOutcome.threw = NewError("no RPC URLs configured")
        ELSE /\ initOutcome.threw = Undefined
             /\ Len(providerPool) = Len(initOutcome.rpcUrls.list)
             /\ \A i \in 1..Len(providerPool) :
                   providerPool[i].url = initOutcome.rpcUrls.list[i]
             /\ providerCursor = 0

\* a second initialize, right after a call that left the cursor at 2
C7_Witness ==
    /\ initOutcome # Undefined
    /\ initOutcome.threw = Undefined
    /\ rpc.pc = "returned"
    /\ rpc.n = 3 /\ LastInvocation.idx = 1
    /\ served.calls = 0
    /\ providerCursor = 0

\* C8: from a freshly initialized pool of n endpoints, as long as every task succeeds on
\* its first attempt, the k-th rpcCall runs its task on endpoint (k-1) mod n.
C8_RoundRobin ==
    (served.clean /\ served.calls >= 1 /\ rpc.pc \in {"task", "returned"})
        => /\ Len(invocations) = 1
           /\ invocations[1].idx = (served.calls - 1) % rpc.n

C8_Witness ==
    /\ served.clean
    /\ rpc.pc = "returned"
    /\ rpc.n = 3
    /\ served.calls = 4
    /\ rpc.result.value = 1

-----------------------------------------------------------------------------
(* Properties of getBlockByTime, checked under SpecResolver *)

Max(S) == CHOOSE x \in S : \A y \in S : y <= x

\* the blocks of [low, high], as passed in, at or before the target
AtOrBefore == { b \in gbt.low0..gbt.high0 : timestamp(b) <= gbt.targetTs }

GbtReturned == gbt.pc = "returned" /\ gbt.low0 <= gbt.high0

\* C9 (as amended): for non-decreasing timestamps and low <= high, getBlockByTime(target,
\* low, high) returns the greatest block of [low, high] whose timestamp is <= target
\* whenever there is one, i.e. whenever timestamp(low) <= target: for targets equal to a
\* block's timestamp, between two blocks' timestamps, and above the range.
C9_GreatestAtOrBefore ==
    (GbtReturned /\ AtOrBefore # {}) => gbt.result.value = Max(AtOrBefore)

\* C9 as stated: also for a target below the range the result is the greatest block of
\* [low, high] whose timestamp is <= target.
C9_AsStated ==
    GbtReturned => (AtOrBefore # {} /\ gbt.result.value = Max(AtOrBefore))

\* a target strictly between the timestamps of two blocks inside the range
C9_Witness ==
    /\ GbtReturned
    /\ gbt.low0 < gbt.result.value /\ gbt.result.value < gbt.high0
    /\ timestamp(gbt.result.value) < gbt.targetTs
    /\ gbt.targetTs < timestamp(gbt.result.value + 1)
    /\ Len(probed) >= 2

\* C10: if the target precedes the timestamp of every block of [low, high],
\* getBlockByTime returns low as passed in; if the target is at or after timestamp(high),
\* it returns high.
C10_Boundaries ==
    GbtReturned =>
        /\ (\A b \in gbt.low0..gbt.high0 : gbt.targetTs < timestamp(b))
              => gbt.result.value = gbt.low0
        /\ timestamp(gbt.high0) <= gbt.targetTs => gbt.result.value = gbt.high0

\* a target before the whole range, with a low boundary other than genesis
C10_Witness ==
    /\ GbtReturned
    /\ gbt.low0 >= 1 /\ gbt.low0 + 2 <= gbt.high0
    /\ gbt.targetTs < timestamp(gbt.low0)
    /\ gbt.result.value = gbt.low0
    /\ Len(probed) >= 1

-----------------------------------------------------------------------------
(* Properties of the two binary searches, checked under SpecSearches *)

GdbReturned == gdb.pc = "returned"

\* C11: for a contract whose bytecode is empty before block D and non-empty from D on,
\* with 0 <= D <= head, getDeployBlock returns exactly D (D = 0 and D = head included)
C11_DeployBlock ==
    (GdbReturned /\ deployedAt <= gdb.latest) => gdb.result.value = deployedAt

C11_Witness ==
    /\ GdbReturned
    /\ deployedAt = gdb.latest
    /\ gdb.latest = MaxHead
    /\ Len(codeProbed) >= 2
    /\ gdb.result.value = deployedAt

\* the searches as they run when no read ever fails: the bounds and the block probed at
\* each turn of the loop, then the bounds the loop ends with
RECURSIVE TimeTrace(_, _, _)
TimeTrace(low, high, targetTs) ==
    IF low < high
    THEN LET mid == (low + high + 1) \div 2
         IN  <<[low |-> low, high |-> high, mid |-> mid]>> \o
             (IF timestamp(mid) <= targetTs THEN TimeTrace(mid, high, targetTs)
              ELSE TimeTrace(low, mid - 1, targetTs))
    ELSE <<[low |-> low, high |-> high, mid |-> -1]>>

RECURSIVE CodeTrace(_, _)
CodeTrace(low, high) ==
    IF low < high
    THEN LET mid == (low + high) \div 2
         IN  <<[low |-> low, high |-> high, mid |-> mid]>> \o
             (IF mid >= deployedAt THEN CodeTrace(low, mid) ELSE CodeTrace(mid + 1, high))
    ELSE <<[low |-> low, high |-> high, mid |-> -1]>>

\* the search with frame f and probes seen is where the failure-free run t is after
\* as many probes, and ends with its result
FollowsTrace(f, seen, t, awaiting) ==
    LET k == Len(seen)
    IN  /\ k < Len(t)
        /\ \A i \in 1..k : seen[i] = t[i].mid
        /\ f.pc = awaiting =>
               /\ k >= 1
               /\ f.low = t[k].low /\ f.high = t[k].high /\ f.mid = t[k].mid
        /\ f.pc = "returned" =>
               /\ k = Len(t) - 1
               /\ f.result.value = t[Len(t)].low

\* C12: whatever reads fail and are retried, as long as no rpcCall gives up, both
\* searches probe the same blocks in the same order and return the same block as the
\* run in which no read fails; a failed attempt leaves low and high as they were
C12_FailuresDoNotCorrupt ==
    /\ gbt.pc \in {"block", "returned"} =>
           FollowsTrace(gbt, probed, TimeTrace(gbt.low0, gbt.high0, gbt.targetTs), "block")
    /\ gdb.pc \in {"code", "returned"} =>
           FollowsTrace(gdb, codeProbed, CodeTrace(0, gdb.latest), "code")

C12_Witness ==
    /\ gbt.pc = "returned"
    /\ Len(probed) >= 2
    /\ Len(invocations) >= 2
    /\ FailedRetriably(1)
    /\ LastInvocation.out = "ok"

-----------------------------------------------------------------------------
(* Properties of the discovery of the price source, checked under SpecDiscovery *)

ErcAt(i) == tried[i].fn \in {"decimals", "convertToAssets"}

\* the probes of the direct loop, in the order they were made
DirectProbes == SelectSeq(tried, LAMBDA p : p.fn \notin {"decimals", "convertToAssets"})

\* verified minter if any, then the input address
ExpectedCandidates ==
    IF dps.minterAddress # Null THEN << MinterAddress, InputAddress >> ELSE << InputAddress >>

\* the (candidate, accessor) pairs, candidate-major
Pairs(cands, order) ==
    [i \in 1..(Len(cands) * Len(order)) |->
        [address |-> cands[((i - 1) \div Len(order)) + 1],
         fn |-> order[((i - 1) % Len(order)) + 1]]]

DpsReturned == dps.pc = "returned"

\* C13: the direct probes are the (candidate, accessor) pairs in candidate-major order
\* over [verified minter if any, input address], every probe before the last one has
\* failed, discovery stops at the first probe that succeeds and returns mode "direct"
\* with that candidate and that accessor
C13_DirectMode ==
    LET direct == DirectProbes
        pairs == Pairs(ExpectedCandidates, dps.functionOrder)
        n == Len(direct)
    IN  /\ n <= Len(pairs)
        /\ \A i \in 1..n :
               /\ direct[i].address = pairs[i].address
               /\ direct[i].fn = pairs[i].fn
               /\ i < n => direct[i].ok = "no"
        /\ (n >= 1 /\ direct[n].ok = "yes") =>
               /\ DpsReturned
               /\ tried = direct
               /\ dps.result.mode = "direct"
               /\ dps.result.sourceAddress = pairs[n].address
               /\ dps.result.sourceFunction = pairs[n].fn
        /\ (DpsReturned /\ dps.result.mode = "direct") => (n >= 1 /\ direct[n].ok = "yes")

C13_Witness ==
    /\ DpsReturned
    /\ dps.result.mode = "direct"
    /\ dps.result.sourceAddress = MinterAddress
    /\ dps.result.sourceFunction = "price"
    /\ Len(tried) = 3

NoOverride == dps.opts.priceFn = ""

SymbolContains(x) == dps.tokenSymbol # Null /\ includes(dps.tokenSymbol.text, x)

SymbolContainsAnyCase(x) ==
    dps.tokenSymbol # Null /\ includes(toUpperCase(dps.tokenSymbol.text), x)

\* on every candidate, fn has been probed before any other name is
FirstOnEveryCandidate(fn) ==
    \A i \in 1..Len(tried) :
        tried[i].fn # fn =>
            \E j \in 1..(i - 1) : tried[j].address = tried[i].address /\ tried[j].fn = fn

\* the direct probes go through the default list, in its order, on every candidate
DefaultOrderProbed ==
    LET direct == DirectProbes
        std == PRICE_FUNCTIONS.standard
    IN  \A i \in 1..Len(direct) : direct[i].fn = std[((i - 1) % Len(std)) + 1]

\* C14: with no override, when the resolved symbol contains "AA", priceAA is probed
\* before every other accessor name on every candidate
C14_TrancheAFirst ==
    (NoOverride /\ SymbolContains("AA")) => FirstOnEveryCandidate("priceAA")

C14_Witness ==
    /\ NoOverride
    /\ dps.tokenSymbol = [text |-> "BBAA"]
    /\ Len(dps.candidates) = 2
    /\ Len(tried) > Len(dps.functionOrder)
    /\ tried[Len(dps.functionOrder) + 1].fn = "priceAA"

\* C15 as stated: with no override, a symbol containing "BB" puts priceBB first on
\* every candidate, and a symbol containing neither "AA" nor "BB", or no symbol,
\* leaves the default order
C15_AsStated ==
    NoOverride =>
        /\ SymbolContains("BB") => FirstOnEveryCandidate("priceBB")
        /\ (~SymbolContains("AA") /\ ~SymbolContains("BB")) => DefaultOrderProbed

\* C15, amended: with no override, a symbol that contains "BB" and no "AA", letter case
\* ignored, puts priceBB first on every candidate; a symbol that contains neither,
\* letter case ignored, or no symbol, leaves the default order
C15_TrancheBFirst ==
    NoOverride =>
        /\ (SymbolContainsAnyCase("BB") /\ ~SymbolContainsAnyCase("AA"))
              => FirstOnEveryCandidate("priceBB")
        /\ (~SymbolContainsAnyCase("AA") /\ ~SymbolContainsAnyCase("BB"))
              => DefaultOrderProbed

C15_Witness ==
    /\ NoOverride
    /\ dps.tokenSymbol = [text |-> "bb_jr"]
    /\ Len(dps.candidates) = 2
    /\ Len(tried) > Len(dps.functionOrder)
    /\ tried[1].fn = "priceBB"
    /\ tried[Len(dps.functionOrder) + 1].fn = "priceBB"

\* C16: a decimals or convertToAssets probe is made only after every (candidate,
\* accessor) pair of the direct loop has been probed and has failed; once a direct
\* probe has succeeded there is none
C16_Erc4626Last ==
    \A i \in 1..Len(tried) :
        ErcAt(i) =>
            /\ \A c \in 1..Len(ExpectedCandidates) : \A f \in 1..Len(dps.functionOrder) :
                   \E j \in 1..(i - 1) :
                       /\ tried[j].address = ExpectedCandidates[c]
                       /\ tried[j].fn = dps.functionOrder[f]
                       /\ tried[j].ok = "no"
            /\ \A j \in 1..Len(tried) : ~ErcAt(j) => tried[j].ok = "no"

C16_Witness ==
    /\ Len(dps.candidates) = 2
    /\ NoOverride
    /\ Len(tried) = 2 * Len(PRICE_FUNCTIONS.standard) + 1
    /\ ErcAt(Len(tried))

\* numeral is the decimal numeral of 10^n
IsPowerOfTen(numeral, n) ==
    /\ Len(numeral) = n + 1
    /\ CharAt(numeral, 1) = "1"
    /\ \A k \in 2..(n + 1) : CharAt(numeral, k) = "0"

\* C17: in the ERC4626 loop a candidate gets a convertToAssets probe only after its
\* decimals read has succeeded with a value in [0, 30], and then with 10^decimals as
\* the single argument; the first candidate whose conversion succeeds is returned with
\* mode "erc4626", sourceFunction "convertToAssets", that oneShare and shareDecimals;
\* oneShare and shareDecimals are in a result in that mode only
C17_Erc4626Fallback ==
    /\ \A i \in 1..Len(tried) :
           /\ tried[i].fn = "convertToAssets" =>
                  /\ i > 1
                  /\ tried[i - 1].fn = "decimals"
                  /\ tried[i - 1].address = tried[i].address
                  /\ tried[i - 1].ok = "yes"
                  /\ tried[i - 1].value.value \in 0..30
                  /\ Len(tried[i].args) = 1
                  /\ IsPowerOfTen(tried[i].args[1], tried[i - 1].value.value)
                  /\ i < Len(tried) => tried[i].ok = "no"
           /\ (tried[i].fn = "decimals" /\ i < Len(tried)
               /\ (tried[i].ok = "no" \/ tried[i].value.value \notin 0..30)) =>
                  /\ tried[i + 1].fn = "decimals"
                  /\ tried[i + 1].address # tried[i].address
    /\ (DpsReturned /\ dps.result.mode = "erc4626") =>
           LET last == tried[Len(tried)]
           IN  /\ last.fn = "convertToAssets"
               /\ last.ok = "yes"
               /\ dps.result.sourceAddress = last.address
               /\ dps.result.sourceFunction = "convertToAssets"
               /\ dps.result.oneShare = last.args[1]
               /\ dps.result.shareDecimals = tried[Len(tried) - 1].value.value
    /\ (Len(tried) >= 1 /\ tried[Len(tried)].fn = "convertToAssets"
        /\ tried[Len(tried)].ok = "yes") =>
           (DpsReturned /\ dps.result.mode = "erc4626")
    /\ DpsReturned =>
           /\ "oneShare" \in DOMAIN dps.result <=> dps.result.mode = "erc4626"
           /\ "shareDecimals" \in DOMAIN dps.result <=> dps.result.mode = "erc4626"

C17_Witness ==
    /\ DpsReturned
    /\ dps.result.mode = "erc4626"
    /\ dps.result.sourceAddress = InputAddress
    /\ dps.result.shareDecimals = 30
    /\ Len(dps.candidates) = 2
    /\ \E i \in 1..Len(tried) :
           /\ tried[i].fn = "decimals"
           /\ tried[i].address = MinterAddress
           /\ tried[i].ok = "yes"
           /\ tried[i].value.value = 31

\* a probe that yields a price source: a direct probe or a conversion that succeeded
Succeeded(i) == tried[i].fn # "decimals" /\ tried[i].ok = "yes"

\* C18: when the probes have been made and none has succeeded, discovery throws an
\* error whose message names the address of every candidate; it returns a result
\* only when a probe has succeeded
C18_DiscoveryError ==
    /\ (dps.pc \in {"returned", "thrown"} /\ Len(tried) >= 1
        /\ \A i \in 1..Len(tried) : ~Succeeded(i)) =>
           /\ dps.pc = "thrown"
           /\ "message" \in DOMAIN dps.err
           /\ \A c \in 1..Len(ExpectedCandidates) :
                  includes(dps.err.message, ExpectedCandidates[c])
           /\ \A i \in 1..Len(tried) : \E c \in 1..Len(ExpectedCandidates) :
                  tried[i].address = ExpectedCandidates[c]
    /\ DpsReturned => \E i \in 1..Len(tried) : Succeeded(i)

C18_Witness ==
    /\ dps.pc = "thrown"
    /\ Len(dps.candidates) = 2
    /\ Len(tried) >= 1
    /\ \A i \in 1..Len(tried) : ~Succeeded(i)
    /\ includes(dps.err.message, MinterAddress)
    /\ includes(dps.err.message, InputAddress)

\* C19: with an accessor override the direct loop probes that accessor and no other,
\* once on every candidate, whatever the symbol is
C19_OverrideOnly ==
    ~NoOverride =>
        LET direct == DirectProbes
        IN  /\ Len(direct) <= Len(ExpectedCandidates)
            /\ \A i \in 1..Len(direct) :
                   /\ direct[i].fn = dps.opts.priceFn
                   /\ direct[i].address = ExpectedCandidates[i]

C19_Witness ==
    /\ ~NoOverride
    /\ dps.tokenSymbol = [text |-> "BB_jr"]
    /\ Len(dps.candidates) = 2
    /\ Len(tried) >= 3
    /\ tried[1].fn = "getRate" /\ tried[2].fn = "getRate"
    /\ tried[2].address = InputAddress

\* C20 as stated: discovery is never aborted by the symbol read, by the minter read or
\* by the verification of the minter's bytecode
C20_BestEffort ==
    dps.pc = "thrown" => dps.at \notin {"symbol", "minter", "code"}

-----------------------------------------------------------------------------
(* Properties of the sampling loop, checked under SpecBackfill *)

Rows == stream.rows

Sampling == main.pc \in {"await", "done", "aborted"}
FixedStep == Sampling /\ main.blockStep > 0
Daily == Sampling /\ main.blockStep = 0
Ended == main.pc \in {"done", "aborted"}

\* C21: a row is written only for a visited block whose UTC day differs from the day
\* of the row written before it, so that no two rows bear the same day
C21_OneRowPerDay ==
    /\ \A i \in 1..Len(Rows) :
           /\ \E k \in 1..Len(visited) : visited[k] = Rows[i].block
           /\ Rows[i].date = DateOf(timestamp(Rows[i].block))
           /\ i > 1 => Rows[i].date # Rows[i - 1].date
    /\ \A i, j \in 1..Len(Rows) : i < j => Rows[i].date # Rows[j].date

C21_Witness ==
    /\ main.pc = "done"
    /\ Len(visited) = 3
    /\ Len(Rows) = 2
    /\ DateOf(timestamp(visited[2])) = DateOf(timestamp(visited[1]))
    /\ Rows[2].block = visited[3]

\* ceil(a / b) for a >= 0 and b > 0
CeilDiv(a, b) == (a + b - 1) \div b

C22_Visits ==
    FixedStep =>
        /\ Len(visited) >= 1 => visited[1] = main.startBlock
        /\ \A i \in 1..(Len(visited) - 1) :
               /\ visited[i] < main.endBlock
               /\ visited[i + 1] = (IF visited[i] + main.blockStep <= main.endBlock
                                    THEN visited[i] + main.blockStep ELSE main.endBlock)
        /\ main.pc = "done" =>
               /\ visited[Len(visited)] = main.endBlock
               /\ Len(visited) =
                      CeilDiv(main.endBlock - main.startBlock, main.blockStep) + 1

\* C22: under the fixed-step policy the block visited after b is min(b + step, endBlock);
\* a run that completes has visited endBlock last and once, after
\* ceil((endBlock - startBlock) / step) + 1 visits, and every run ends
C22_FixedStep == []C22_Visits /\ (FixedStep ~> Ended)

C22_Witness ==
    /\ FixedStep
    /\ main.pc = "done"
    /\ Len(visited) >= 2
    /\ visited[Len(visited) - 1] + main.blockStep > main.endBlock
    /\ visited[Len(visited)] = main.endBlock

\* the block getBlockByTime(targetTs, low, high) returns when no read fails
BlockAtOrBeforeTime(targetTs, low, high) ==
    LET t == TimeTrace(low, high, targetTs) IN t[Len(t)].low

\* the block the daily policy looks at after block b
DailySuccessor(b) ==
    BlockAtOrBeforeTime(timestamp(b) + SecondsPerDay, b + 1, main.endBlock)

C23_Visits ==
    Daily =>
        /\ Len(visited) >= 1 => visited[1] = main.startBlock
        /\ \A i \in 1..(Len(visited) - 1) :
               /\ visited[i + 1] = DailySuccessor(visited[i])
               /\ visited[i + 1] > visited[i]
               /\ visited[i + 1] <= main.endBlock
        /\ main.pc = "done" =>
               LET next == DailySuccessor(visited[Len(visited)])
               IN  next <= visited[Len(visited)] \/ next > main.endBlock

\* a result that does not advance past the block ends the run with no further visit
C23_NoAdvanceEnds ==
    (/\ main.pc = "await" /\ main.at = "next"
     /\ gbt.pc = "returned" /\ gbt.result.value <= main.block
     /\ main' # main)
        => (main'.pc = "done" /\ visited' = visited)

\* C23: under the daily policy the block visited after b is the block getBlockByTime
\* finds for timestamp(b) + 86400 in [b + 1, endBlock]; a result that does not advance
\* past b ends the sampling; every run ends
C23_Daily == []C23_Visits /\ [][C23_NoAdvanceEnds]_vars /\ (Daily ~> Ended)

C23_Witness ==
    /\ Daily
    /\ main.pc = "done"
    /\ Len(visited) >= 2
    /\ visited[2] > visited[1] + 1
    /\ visited[2] = main.endBlock

\* C24: the delta of a row is its price minus the price of the row written before it,
\* whatever was sampled in between, and 0 for the first row
C24_Delta ==
    \A i \in 1..Len(Rows) :
        Rows[i].delta = (IF i = 1 THEN 0 ELSE Rows[i].price - Rows[i - 1].price)

C24_Witness ==
    /\ main.pc = "done"
    /\ Len(Rows) = 3
    /\ Rows[1].price = 1000 /\ Rows[2].price = 1010 /\ Rows[3].price = 1020
    /\ Rows[1].delta = 0 /\ Rows[2].delta = 10 /\ Rows[3].delta = 10

SingleBlock == Sampling /\ main.startBlock = main.endBlock

C25_OneObservation ==
    SingleBlock =>
        /\ Len(visited) <= 1
        /\ Len(Rows) <= 1
        /\ \A k \in 1..Len(visited) : visited[k] = main.startBlock
        /\ main.pc = "done" =>
               /\ visited = <<main.startBlock>>
               /\ Len(Rows) = 1
               /\ Rows[1].block = main.startBlock
               /\ Rows[1].delta = 0
               /\ stream.summary.observations = 1

\* C25: over a range of one block B a run whose reads succeed visits B alone and
\* writes one row, for B, with delta 0, under either policy; every such run ends
C25_SingleBlock == []C25_OneObservation /\ (SingleBlock ~> Ended)

C25_Witness ==
    /\ main.pc = "done"
    /\ main.blockStep = 0
    /\ main.startBlock = main.endBlock
    /\ main.startBlock = 1
    /\ Len(Rows) = 1
    /\ Rows[1].delta = 0

\* main is resumed with a failed read of the block's timestamp or of its price
ReadFailed ==
    /\ main.pc = "await"
    /\ \/ main.at = "block" /\ rpc.pc = "thrown"
       \/ main.at = "price" /\ rpc.pc \in {"returned", "thrown"} /\ ~TryCallResult.ok
    /\ main' # main

C26_FailureAborts ==
    ReadFailed => (main'.pc = "aborted" /\ visited' = visited /\ stream' = stream)

C26_NothingAfter ==
    main.pc = "aborted" => (main' = main /\ visited' = visited /\ stream' = stream)

C26_NoSummary ==
    main.pc = "aborted" => stream.summary = Undefined

\* C26: a failed read of the timestamp or of the price of a visited block, once rpcCall
\* has given up, rejects main: no other block is visited, no row and no summary is
\* written afterwards, and the rows written before are all the output
C26_ReadFailureAborts ==
    []C26_NoSummary /\ [][C26_FailureAborts /\ C26_NothingAfter]_vars

C26_Witness ==
    /\ main.pc = "aborted"
    /\ main.err = ReadFailure(main)
    /\ Len(visited) = 2
    /\ visited[2] < main.endBlock
    /\ Len(Rows) = 1
    /\ stream.summary = Undefined

\* the step that resolves the range, with the options and blocks it starts from
ResolvesRange == main.pc = "range" /\ main' # main

C27_Resolution ==
    ResolvesRange =>
        LET given == main.startBlock # -1
            below == given /\ main.startBlock < main.deployBlock
            start == IF below \/ ~given THEN main.deployBlock ELSE main.startBlock
            end == IF main.endBlock = -1 THEN main.latestBlock ELSE main.endBlock
        IN  /\ main'.warned = below
            /\ main'.startBlock = start
            /\ main'.endBlock = end
            /\ end >= start =>
                   /\ main'.pc = "await"
                   /\ visited' = <<start>>
            /\ end < start =>
                   /\ main'.pc = "aborted"
                   /\ visited' = <<>>
                   /\ stream' = EmptyStream

C27_NoSamplingAfterRangeError ==
    (main.pc = "aborted" /\ main.endBlock < main.startBlock) =>
        (visited = <<>> /\ stream = EmptyStream)

\* C27: a start block given below the deployment block is raised to the deployment
\* block with a warning and the run goes on; an end block below the start block so
\* resolved rejects main before any block is sampled
C27_RangeResolution == [][C27_Resolution]_vars /\ []C27_NoSamplingAfterRangeError

C27_Witness ==
    /\ main.warned
    /\ main.startBlock = 1
    /\ main.pc = "done"
    /\ visited[1] = 1
    /\ Len(Rows) >= 1

C27_WitnessFatal ==
    /\ main.warned
    /\ main.pc = "aborted"
    /\ main.endBlock < main.startBlock
    /\ visited = <<>>

Completed == main.pc = "done" /\ Len(Rows) >= 1

\* the seconds between the first and the last block that got a row
Elapsed == timestamp(Rows[Len(Rows)].block) - timestamp(Rows[1].block)

\* r is elapsed / 86400 rounded to the nearest integer, a half rounded up
IsRounded(r, elapsed) ==
    /\ 2 * SecondsPerDay * r - SecondsPerDay <= 2 * elapsed
    /\ 2 * elapsed < 2 * SecondsPerDay * r + SecondsPerDay

\* C28: a completed run with at least one row reports days = max(1, round(elapsed /
\* 86400)) for the time elapsed between its first and last row, and missing days =
\* max(0, days + 1 - number of rows)
C28_DaysAndMissingDays ==
    Completed =>
        LET s == stream.summary
        IN  /\ s.observations = Len(Rows)
            /\ \E r \in 0..(MaxHeadBackfill * 2) :
                   /\ IsRounded(r, Elapsed)
                   /\ s.days = (IF r >= 1 THEN r ELSE 1)
            /\ s.missingDays = (IF s.days + 1 - Len(Rows) >= 0
                                THEN s.days + 1 - Len(Rows) ELSE 0)

C28_Witness ==
    /\ Completed
    /\ Len(Rows) = 2
    /\ Elapsed = 144000
    /\ stream.summary.days = 2
    /\ stream.summary.missingDays = 1

\* the number of the UTC day of the block of a row
DayOfRow(i) == timestamp(Rows[i].block) \div SecondsPerDay

\* the calendar days from the date of the first row to the date of the last row on
\* which no row was written
DaysWithoutObservation ==
    { d \in DayOfRow(1)..DayOfRow(Len(Rows)) : \A i \in 1..Len(Rows) : DayOfRow(i) # d }

\* C29 as stated: the missing-days value of the summary is the number of calendar days
\* between the first and the last observation that have no observation, 0 for a run
\* with one observation
C29_MissingDays ==
    Completed => stream.summary.missingDays = Cardinality(DaysWithoutObservation)

-----------------------------------------------------------------------------
(* Properties of isRetriableRpcError, checked under SpecClassify *)

\* the text of an error: its three texts, as they are
TextOf(e) == e.shortMessage \o " " \o e.message \o " " \o e.info

\* s holds pattern, letter for letter, whatever the case of the letters of s
ContainsIgnoringCase(s, pattern) ==
    \E i \in 0..(Len(s) - Len(pattern)) :
        \A k \in 1..Len(pattern) : LowerChar(CharAt(s, i + k)) = CharAt(pattern, k)

MatchesFingerprint(e) ==
    \E p \in 1..Len(RETRIABLE_ERROR_PATTERNS) :
        ContainsIgnoringCase(TextOf(e), RETRIABLE_ERROR_PATTERNS[p])

InUpperCase(e) == [shortMessage |-> toUpperCase(e.shortMessage),
                   message |-> toUpperCase(e.message), info |-> toUpperCase(e.info)]

InLowerCase(e) == [shortMessage |-> toLowerCase(e.shortMessage),
                   message |-> toLowerCase(e.message), info |-> toLowerCase(e.info)]

\* the errors the attempts of the call have failed with
FailedWith == { invocations[i].err : i \in { j \in 1..Len(invocations) :
                                              invocations[j].out = "error" } }

\* C30: an error is retriable exactly when its text, letter case apart, holds one of
\* the patterns of the list; an error with no text at all, and any other error that
\* matches no pattern, is not retriable and is thrown at once
C30_ClosedAllowlist ==
    /\ \A e \in FailedWith :
           /\ isRetriableRpcError(e) <=> MatchesFingerprint(e)
           /\ isRetriableRpcError(InUpperCase(e)) = isRetriableRpcError(e)
           /\ isRetriableRpcError(InLowerCase(e)) = isRetriableRpcError(e)
           /\ TextOf(e) = "  " => ~isRetriableRpcError(e)
    /\ \A i \in 1..Len(invocations) :
           (invocations[i].out = "error" /\ ~MatchesFingerprint(invocations[i].err)) =>
               /\ i = Len(invocations)
               /\ rpc.pc = "thrown"
               /\ rpc.err.error = invocations[i].err

C30_Witness ==
    /\ Len(invocations) = 2
    /\ invocations[1].err = [shortMessage |-> "", message |-> "", info |-> "TIMEOUT"]
    /\ invocations[2].out = "error"
    /\ invocations[2].err = [shortMessage |-> "", message |-> "", info |-> ""]
    /\ rpc.pc = "thrown"

InRange(b) == main.startBlock <= b /\ b <= main.endBlock

\* C31: in a sampling run of either policy the visited blocks start at startBlock and
\* increase strictly, and every block whose timestamp or price is read, by the loop or
\* by the search for the next block, lies in [startBlock, endBlock]
C31_VisitsInOrder ==
    Sampling =>
        /\ Len(visited) >= 1 => visited[1] = main.startBlock
        /\ \A i \in 1..Len(visited) : InRange(visited[i])
        /\ \A i \in 1..(Len(visited) - 1) : visited[i] < visited[i + 1]
        /\ \A i \in 1..Len(probed) : InRange(probed[i])
        /\ (rpc.pc # "idle" /\ rpc.task.op \in {"getBlock", "call"}) => InRange(rpc.task.arg)

C31_Witness ==
    /\ Daily
    /\ main.pc = "await" /\ main.at = "price"
    /\ rpc.pc = "task"
    /\ Len(visited) >= 2
    /\ Len(probed) >= 1
    /\ visited[Len(visited)] = probed[Len(probed)]

-----------------------------------------------------------------------------
(* Properties of the loops of the two binary searches, checked under FairSpecSearches *)

\* the least k with 2^k >= n
RECURSIVE CeilLog2(_)
CeilLog2(n) == IF n <= 1 THEN 0 ELSE 1 + CeilLog2((n + 1) \div 2)

GbtSearching == gbt.pc = "block" /\ gbt.low0 <= gbt.high0
GdbSearching == gdb.pc = "code"

C32_Intervals ==
    /\ (gbt.pc \in {"block", "returned"} /\ gbt.low0 <= gbt.high0) =>
           /\ gbt.low0 <= gbt.low /\ gbt.low <= gbt.high /\ gbt.high <= gbt.high0
           /\ Len(probed) <= CeilLog2(gbt.high0 - gbt.low0 + 1)
           /\ gbt.pc = "block" =>
                  gbt.low < gbt.high /\ gbt.low <= gbt.mid /\ gbt.mid <= gbt.high
           /\ gbt.pc = "returned" => gbt.low = gbt.high
    /\ gdb.pc \in {"code", "returned"} =>
           /\ 0 <= gdb.low /\ gdb.low <= gdb.high /\ gdb.high <= gdb.latest
           /\ Len(codeProbed) <= CeilLog2(gdb.latest + 1)
           /\ gdb.pc = "code" =>
                  gdb.low < gdb.high /\ gdb.low <= gdb.mid /\ gdb.mid <= gdb.high
           /\ gdb.pc = "returned" => gdb.low = gdb.high

C32_Shrinks ==
    /\ (GbtSearching /\ gbt' # gbt /\ gbt'.pc \in {"block", "returned"}) =>
           gbt'.high - gbt'.low < gbt.high - gbt.low
    /\ (GdbSearching /\ gdb' # gdb /\ gdb'.pc \in {"code", "returned"}) =>
           gdb'.high - gdb'.low < gdb.high - gdb.low

\* C32: for low <= high each turn of the loop of either search leaves a strictly
\* smaller interval with low <= high, probes a block of the interval, and the search
\* returns when low = high, after at most ceil(log2(high - low + 1)) probes; every
\* search ends
C32_SearchesTerminate ==
    /\ []C32_Intervals
    /\ [][C32_Shrinks]_vars
    /\ (GbtSearching ~> GbtQuiet)
    /\ (GdbSearching ~> GdbQuiet)

C32_Witness ==
    /\ gbt.pc = "returned"
    /\ gbt.high0 - gbt.low0 = MaxHead
    /\ Len(probed) = CeilLog2(MaxHead + 1)
    /\ gbt.low = gbt.high

-----------------------------------------------------------------------------
(* Properties of the running statistics of the sampling loop, checked under SpecBackfill *)

\* the greatest price among the first i rows
RECURSIVE PeakOf(_)
PeakOf(i) ==
    IF i = 1 THEN Rows[1].price
    ELSE IF Rows[i].price > PeakOf(i - 1) THEN Rows[i].price ELSE PeakOf(i - 1)

\* d is (peak - price) / peak in hundredths of a percent, truncated
IsDrawdown(d, peak, price) ==
    /\ d * peak <= (peak - price) * 10000
    /\ (peak - price) * 10000 < (d + 1) * peak

\* d is the drawdown of row i against the peak of the rows up to i
IsDrawdownAt(d, i) == IsDrawdown(d, PeakOf(i), Rows[i].price)

C33_Running ==
    /\ main.maxDrawdown \in 0..10000
    /\ Len(Rows) = 0 => (main.peakPrice = Null /\ main.maxDrawdown = 0)
    /\ Len(Rows) >= 1 =>
           /\ main.peakPrice = [value |-> PeakOf(Len(Rows))]
           /\ \E i \in 1..Len(Rows) : IsDrawdownAt(main.maxDrawdown, i)
           \* the drawdown of no row exceeds it
           /\ \A i \in 1..Len(Rows) :
                  (PeakOf(i) - Rows[i].price) * 10000 < (main.maxDrawdown + 1) * PeakOf(i)
    /\ (\A i \in 1..(Len(Rows) - 1) : Rows[i].price <= Rows[i + 1].price) =>
           main.maxDrawdown = 0
    /\ main.pc = "done" => stream.summary.maxDrawdown = main.maxDrawdown

C33_NeverDecreases == main'.maxDrawdown >= main.maxDrawdown

\* C33: the peak is the greatest price written so far; the max drawdown is the greatest,
\* over the rows, of (peak - price) / peak taken when the row is written, in truncated
\* hundredths of a percent; it never decreases, lies between 0 and 100 percent, and is 0
\* when the prices written never decrease
C33_PeakAndDrawdown == []C33_Running /\ [][C33_NeverDecreases]_vars

C33_Witness ==
    /\ main.pc = "done"
    /\ Len(Rows) = 3
    /\ Rows[1].price = 1010 /\ Rows[2].price = 1020 /\ Rows[3].price = 1000
    /\ main.peakPrice = [value |-> 1020]
    /\ stream.summary.maxDrawdown = 196

-----------------------------------------------------------------------------
(* Properties of the blocks getBlockByTime reads, checked under SpecResolver *)

\* the search is past the resolution of high = null
GbtRanged == gbt.pc \in {"block", "returned"}

\* C34: getBlockByTime probes only blocks above its current low, hence never the low it
\* was called with; for low <= high it returns a block of [low, high], and the low it
\* was called with, unread, when no block above it is at or before the target; for
\* low > high it probes nothing and returns low
C34_LowIsNeverRead ==
    GbtRanged =>
        /\ \A i \in 1..Len(probed) : probed[i] > gbt.low0
        /\ gbt.pc = "block" => gbt.mid > gbt.low
        /\ (gbt.pc = "returned" /\ gbt.low0 <= gbt.high0) =>
               /\ gbt.low0 <= gbt.result.value /\ gbt.result.value <= gbt.high0
               /\ (\A b \in (gbt.low0 + 1)..gbt.high0 : timestamp(b) > gbt.targetTs)
                      => gbt.result.value = gbt.low0
        /\ gbt.low0 > gbt.high0 =>
               /\ gbt.pc = "returned"
               /\ probed = <<>>
               /\ gbt.result.value = gbt.low0

\* the low passed in is returned although its timestamp is after the target
C34_Witness ==
    /\ gbt.pc = "returned"
    /\ gbt.low0 < gbt.high0
    /\ Len(probed) >= 1
    /\ gbt.result.value = gbt.low0
    /\ timestamp(gbt.low0) > gbt.targetTs

\* the call with low > high
C34_WitnessEmptyRange ==
    /\ gbt.pc = "returned"
    /\ gbt.low0 > gbt.high0
    /\ gbt.high0 >= 0
    /\ gbt.result.value = gbt.low0

-----------------------------------------------------------------------------
(* Properties of the blocks getDeployBlock reads, checked under SpecSearches *)

NeverDeployed == deployedAt > gdb.latest

\* C35: getDeployBlock probes only blocks below its current high, hence never the head
\* block; for an address with no bytecode at any block up to the head it returns the
\* head, as it does for a contract deployed at the head, and it has no other way to
\* end than returning a block of [0, head] or passing on the failure of a read
C35_HeadIsNeverRead ==
    /\ gdb.pc \in {"code", "returned"} =>
           /\ \A i \in 1..Len(codeProbed) : codeProbed[i] < gdb.latest
           /\ gdb.pc = "code" => gdb.mid < gdb.high
    /\ gdb.pc = "returned" =>
           /\ gdb.result.value \in 0..gdb.latest
           /\ deployedAt >= gdb.latest => gdb.result.value = gdb.latest
    /\ gdb.pc = "thrown" => gdb.err = rpc.err

C35_Witness ==
    /\ gdb.pc = "returned"
    /\ NeverDeployed
    /\ gdb.latest = MaxHead
    /\ Len(codeProbed) >= 2
    /\ gdb.result.value = gdb.latest

-----------------------------------------------------------------------------
(* Properties of the daily policy, checked under SpecBackfill *)

\* main is about to be resumed with the block getBlockByTime found
NextFound == main.pc = "await" /\ main.at = "next" /\ gbt.pc = "returned"

\* C36: under the daily policy the block found after block b is above b, even when the
\* block after b is more than a day later, so that the branch for a block that does not
\* advance is never the way out: a run that completes has visited endBlock last
C36_DailyAdvances ==
    Daily =>
        /\ NextFound =>
               /\ gbt.result.value >= main.block + 1
               /\ gbt.result.value <= main.endBlock + 1
               /\ gbt.result.value = main.endBlock + 1 <=> main.block = main.endBlock
        /\ main.pc = "done" => visited[Len(visited)] = main.endBlock

C36_Witness ==
    /\ Daily
    /\ main.pc = "done"
    /\ Len(visited) = 3
    /\ visited[2] = visited[1] + 1
    /\ timestamp(visited[2]) > timestamp(visited[1]) + SecondsPerDay
    /\ visited[3] = main.endBlock
    /\ gbt.low0 > gbt.high0

\* the rows that bear the UTC day of block b
RowsOfDayOf(b) == { i \in 1..Len(Rows) : Rows[i].date = DateOf(timestamp(b)) }

C37_EveryDayObserved ==
    (Daily /\ main.pc = "done") =>
        \A b \in main.startBlock..main.endBlock : Cardinality(RowsOfDayOf(b)) = 1

\* C37: a daily run over increasing timestamps ends, and when no read has made it fail
\* it has written one row, and one only, for every UTC day on which a block of
\* [startBlock, endBlock] falls
C37_NoDaySkipped == []C37_EveryDayObserved /\ (Daily ~> Ended)

C37_Witness ==
    /\ Daily
    /\ main.pc = "done"
    /\ main.endBlock = main.startBlock + 2
    /\ visited = <<main.startBlock, main.endBlock>>
    /\ Len(Rows) = 2
    /\ Cardinality(RowsOfDayOf(main.startBlock + 1)) = 1

-----------------------------------------------------------------------------
(* Properties of the start of the sampling, checked under SpecBackfill *)

\* the range resolution goes on to the sampling loop
C38_Begins ==
    (ResolvesRange /\ main'.pc # "aborted") =>
        /\ main.deployBlock <= main'.startBlock
        /\ main'.startBlock <= main'.endBlock
        /\ main'.pc = "await" /\ main'.at = "block"
        /\ visited' = <<main'.startBlock>>

\* the first block has been sampled
FirstSampled == main.pc = "done" \/ Len(visited) >= 2 \/ (main.pc = "await" /\ main.at = "next")

C38_FirstBlockObserved ==
    /\ Sampling /\ Len(visited) >= 1 => visited[1] = main.startBlock
    /\ FirstSampled =>
           /\ Len(Rows) >= 1
           /\ Rows[1].block = main.startBlock
    /\ main.pc = "done" => stream.summary.observations >= 1

\* C38: when the sampling begins, deployBlock <= startBlock <= endBlock whatever bounds
\* were given or defaulted; the first block visited is startBlock and it gets a row, so
\* that a run that completes counts at least one observation
C38_SamplingBegins == [][C38_Begins]_vars /\ []C38_FirstBlockObserved

C38_Witness ==
    /\ main.pc = "done"
    /\ ~main.warned
    /\ main.startBlock = 1
    /\ main.endBlock = MaxHeadBackfill
    /\ Len(visited) >= 2
    /\ Rows[1].block = 1
    /\ stream.summary.observations >= 1

-----------------------------------------------------------------------------
(* Properties of the calls of rpcCall in which no attempt is made, checked under Spec *)

GenericError == NewError("rpc call failed on all providers")

\* the call in the frame has thrown and nothing has touched the pool since
Thrown == rpc.pc = "thrown" /\ initOutcome = Undefined

\* C39: rpcCall throws "rpc call failed on all providers" only when it made no attempt,
\* retriesPerProvider being 0 or less; the task is then never invoked and the cursor is
\* where it was; on a pool that was never initialized rpcCall throws without invoking
\* the task either
C39_NoAttempt ==
    Thrown =>
        /\ rpc.err = GenericError <=> (rpc.n > 0 /\ rpc.retriesPerProvider <= 0)
        /\ rpc.err = GenericError =>
               /\ invocations = <<>>
               /\ sleeps = <<>>
               /\ providerCursor = cursor0
        /\ rpc.n = 0 =>
               /\ providerPool = <<>>
               /\ rpc.err = NewError("provider pool not initialized")
               /\ invocations = <<>>
               /\ providerCursor = cursor0
        /\ (rpc.n > 0 /\ rpc.retriesPerProvider > 0) =>
               /\ Len(invocations) >= 1
               /\ DOMAIN rpc.err = {"thrownBy", "error"}
               /\ rpc.err.thrownBy \in 1..Len(invocations)
               /\ invocations[rpc.err.thrownBy].err = rpc.err.error

C39_Witness ==
    /\ Thrown
    /\ rpc.err = GenericError
    /\ rpc.n = MaxUrls
    /\ providerCursor = 1
    /\ served.calls >= 2

-----------------------------------------------------------------------------
(* Properties of the delta column, checked under SpecBackfill *)

\* the sum of the deltas of the first i rows
RECURSIVE SumOfDeltas(_)
SumOfDeltas(i) == IF i = 0 THEN 0 ELSE SumOfDeltas(i - 1) + Rows[i].delta

\* C40: in a completed run the deltas of the rows add up to the price of the last row
\* minus the price of the first row
C40_DeltasTelescope ==
    main.pc = "done" =>
        /\ Len(Rows) >= 1
        /\ SumOfDeltas(Len(Rows)) = Rows[Len(Rows)].price - Rows[1].price

C40_Witness ==
    /\ main.pc = "done"
    /\ Len(Rows) = 3
    /\ Rows[2].delta > 0
    /\ Rows[3].delta < 0
    /\ SumOfDeltas(3) = Rows[3].price - Rows[1].price
====
